---- MODULE Spec2Model ----
(***************************************************************************)
(* Physical-fitness test recorder: the scoring engine, the per-student     *)
(* reports of the edit view and of the two exports, the class-data         *)
(* subscriptions of PhFitnessRecord and StudentManagement, and the saves   *)
(* that write trial data back to the realtime database.                    *)
(*                                                                         *)
(* Measurements are naturals.  A 50 m sprint time is held in hundredths of *)
(* a second (8.06 s is 806) and the sprint table in the same unit; every   *)
(* other measurement is held in its own whole unit.  A class section is    *)
(* the sequence of its characters, so that slice() is SubSeq.              *)
(***************************************************************************)
EXTENDS Integers, Sequences, FiniteSets, TLC

\* ---------------------------------------------------------------- bounds
MaxMeasure == 200        \* largest whole-unit measurement tried
MaxSprint == 1400        \* largest sprint time tried, in hundredths of a second
MaxTotal == 80           \* largest total score handed to determineGrade
MaxEditValue == 1        \* largest value typed into a trial input
MaxWrites == 1           \* most update() calls PhFitnessRecord makes in a run
MaxSaves == 2            \* most update() calls in a run of edits and saves on one class
MaxStudents == 2         \* most rows of the student list a click can select
MaxRuns == 4             \* most runs of StudentManagement's students effect
MaxRosterRuns == 2       \* most of these runs after an import

VARIABLES
  db,                    \* the database: <<schoolYear, classSection>> -> slot -> record
  students,              \* PhFitnessRecord: the student list in state
  currentStudentIndex,   \* PhFitnessRecord: index of the edited student, or null
  selectedSchoolYear,    \* PhFitnessRecord: the selected school year
  selectedGrade,         \* PhFitnessRecord: the selected class section
  hasUnsavedChanges,     \* PhFitnessRecord: the unsaved-edits flag
  isSaving,              \* PhFitnessRecord: the save-in-progress flag
  subs,                  \* PhFitnessRecord: paths with an attached class-data listener
  pending,               \* PhFitnessRecord: attached paths whose first snapshot is due
  effectRef,             \* PhFitnessRecord: studentsRef of the effect run now in force
  pc,                    \* PhFitnessRecord: position in the subscription effect
  inflight,              \* PhFitnessRecord: the writes awaited by saves, oldest first
  writes,                \* PhFitnessRecord: number of update() calls the run may still make
  keyClosure,            \* PhFitnessRecord: the state the keydown listener closed over
  lastOp,                \* the operation that produced this state
  smYear,                \* StudentManagement: selectedSchoolYear
  smGrade,               \* StudentManagement: selectedGrade (empty: All Grades)
  smStudents,            \* StudentManagement: the roster in state
  smAlias,               \* StudentManagement: the effect run whose allStudents array
                         \*   is the roster in state (0: the roster is smStudents)
  smSubs,                \* StudentManagement: every listener attached so far
  smRuns,                \* StudentManagement: the runs of the students effect so far
  smLoaded,              \* StudentManagement: paths whose data has arrived
  smQueue,               \* StudentManagement: paths asked of the server, oldest first
  scIn,                  \* scoring: the call under evaluation
  scOut,                 \* scoring: its result, once evaluated
  file,                  \* CsvUpload: the selected file
  uploading,             \* CsvUpload: the upload-in-progress flag
  message,               \* CsvUpload: the message shown under the button
  csvStudents,           \* CsvUpload: the rows processCSV returned to handleUpload
  uploadQueue,           \* CsvUpload: the set() calls uploadToFirebase has yet to make
  downloaded             \* StudentManagement: the text of the last CSV download

pfVars == <<students, currentStudentIndex, selectedSchoolYear, selectedGrade,
            hasUnsavedChanges, isSaving, subs, pending, effectRef, pc, inflight, writes,
            keyClosure>>
smVars == <<smYear, smGrade, smStudents, smAlias, smSubs, smRuns, smLoaded, smQueue>>
scVars == <<scIn, scOut>>
csvVars == <<file, uploading, message, csvStudents, uploadQueue, downloaded>>
vars == <<db, pfVars, smVars, scVars, csvVars, lastOp>>

\* ------------------------------------------------- JavaScript value model
Infinity == 1000000      \* above every measurement tried
NaN == -1                \* not-a-number: every comparison with it is false
Undefined == -2          \* a property that is absent
TypeError == -3          \* the call threw

IsNumber(v) == v >= 0

\* m[k] of an object: undefined when the key is absent.
Get(m, k) == IF k \in DOMAIN m THEN m[k] ELSE Undefined

\* a ?? b
Coalesce(a, b) == IF a = Undefined THEN b ELSE a

ToNumber(v) == IF IsNumber(v) THEN v ELSE NaN

SetMax(S) == CHOOSE x \in S : \A y \in S : y <= x

\* Math.max(...): NaN as soon as one argument is not a number.
MathMax(args) ==
  IF \E i \in DOMAIN args : ~IsNumber(args[i]) THEN NaN
  ELSE SetMax({args[i] : i \in DOMAIN args})

\* Faulty variant of Geq: the comparison written with > in place of >=.
GeqStrict(a, b) == IsNumber(a) /\ IsNumber(b) /\ a > b

\* Faulty variant of Geq: the operands taken the other way round.
GeqReversed(a, b) == IsNumber(a) /\ IsNumber(b) /\ b >= a

\* a >= b and a <= b of numbers: false when either side is NaN.
Geq(a, b) == IsNumber(a) /\ IsNumber(b) /\ a >= b
Leq(a, b) == IsNumber(a) /\ IsNumber(b) /\ a <= b

\* Array.prototype.find over the outcomes of its test on each element: the
\* index of the first element that passes, 0 when none does.
FirstTrue(passes) ==
  IF \E i \in DOMAIN passes : passes[i]
  THEN CHOOSE i \in DOMAIN passes : passes[i] /\ \A j \in 1..(i - 1) : ~passes[j]
  ELSE 0

\* ------------------------------------------------------- scoring engine
R(mn, mx, sc) == [min |-> mn, max |-> mx, score |-> sc]

scoringTables ==
     "gripStrength" :> (
          "Boy" :> << R(26, 100, 10), R(23, 25, 9), R(20, 22, 8), R(17, 19, 7),
          R(14, 16, 6), R(11, 13, 5), R(9, 10, 4), R(7, 8, 3),
          R(5, 6, 2), R(4, 4, 1) >>
       @@ "Girl" :> << R(25, 100, 10), R(22, 24, 9), R(19, 21, 8), R(16, 18, 7),
          R(13, 15, 6), R(11, 12, 5), R(9, 10, 4), R(7, 8, 3),
          R(4, 6, 2), R(3, 3, 1) >>
     )
  @@ "situps" :> (
          "Boy" :> << R(26, Infinity, 10), R(23, 25, 9), R(20, 22, 8), R(18, 19, 7),
          R(15, 17, 6), R(12, 14, 5), R(10, 11, 4), R(6, 9, 3),
          R(3, 5, 2), R(2, 2, 1) >>
       @@ "Girl" :> << R(23, Infinity, 10), R(20, 22, 9), R(18, 19, 8), R(16, 17, 7),
          R(14, 15, 6), R(12, 13, 5), R(10, 11, 4), R(6, 9, 3),
          R(3, 5, 2), R(2, 2, 1) >>
     )
  @@ "seatedtoetouch" :> (
          "Boy" :> << R(49, Infinity, 10), R(43, 48, 9), R(38, 42, 8), R(34, 37, 7),
          R(30, 33, 6), R(27, 29, 5), R(23, 26, 4), R(19, 22, 3),
          R(15, 18, 2), R(14, 14, 1) >>
       @@ "Girl" :> << R(52, Infinity, 10), R(46, 51, 9), R(41, 45, 8), R(37, 40, 7),
          R(33, 36, 6), R(29, 32, 5), R(24, 28, 4), R(21, 23, 3),
          R(18, 20, 2), R(17, 17, 1) >>
     )
  @@ "sidesteps" :> (
          "Boy" :> << R(50, Infinity, 10), R(46, 49, 9), R(42, 45, 8), R(38, 41, 7),
          R(34, 37, 6), R(30, 33, 5), R(26, 29, 4), R(22, 25, 3),
          R(18, 21, 2), R(1, 17, 1) >>
       @@ "Girl" :> << R(47, Infinity, 10), R(43, 46, 9), R(40, 42, 8), R(36, 39, 7),
          R(32, 35, 6), R(28, 31, 5), R(25, 27, 4), R(21, 24, 3),
          R(17, 20, 2), R(1, 16, 1) >>
     )
  @@ "20mshuttleruns" :> (
          "Boy" :> << R(80, Infinity, 10), R(69, 79, 9), R(57, 68, 8), R(45, 56, 7),
          R(33, 44, 6), R(23, 32, 5), R(15, 22, 4), R(10, 14, 3),
          R(8, 9, 2), R(1, 7, 1) >>
       @@ "Girl" :> << R(64, Infinity, 10), R(54, 63, 9), R(44, 53, 8), R(35, 43, 7),
          R(26, 34, 6), R(19, 25, 5), R(14, 18, 4), R(10, 13, 3),
          R(8, 9, 2), R(1, 7, 1) >>
     )
  @@ "50msprint" :> (
          "Boy" :> << R(100, 800, 10), R(810, 840, 9), R(850, 880, 8), R(890, 930, 7),
          R(940, 990, 6), R(1000, 1060, 5), R(1070, 1140, 4), R(1150, 1220, 3),
          R(1230, 1300, 2), R(1310, Infinity, 1) >>
       @@ "Girl" :> << R(100, 830, 10), R(840, 870, 9), R(880, 910, 8), R(920, 960, 7),
          R(970, 1020, 6), R(1030, 1090, 5), R(1100, 1160, 4), R(1170, 1240, 3),
          R(1250, 1320, 2), R(1330, Infinity, 1) >>
     )
  @@ "longjump" :> (
          "Boy" :> << R(192, Infinity, 10), R(180, 191, 9), R(168, 179, 8), R(156, 167, 7),
          R(143, 155, 6), R(130, 142, 5), R(117, 129, 4), R(105, 116, 3),
          R(93, 104, 2), R(1, 92, 1) >>
       @@ "Girl" :> << R(181, Infinity, 10), R(170, 180, 9), R(160, 169, 8), R(147, 159, 7),
          R(134, 146, 6), R(121, 133, 5), R(109, 120, 4), R(98, 108, 3),
          R(85, 97, 2), R(1, 84, 1) >>
     )
  @@ "softballthrowing" :> (
          "Boy" :> << R(40, Infinity, 10), R(35, 39, 9), R(30, 34, 8), R(24, 29, 7),
          R(18, 23, 6), R(13, 17, 5), R(10, 12, 4), R(7, 9, 3),
          R(4, 6, 2), R(1, 3, 1) >>
       @@ "Girl" :> << R(25, Infinity, 10), R(21, 24, 9), R(17, 20, 8), R(14, 16, 7),
          R(11, 13, 6), R(8, 10, 5), R(6, 7, 4), R(4, 5, 3),
          R(2, 3, 2), R(1, 1, 1) >>
     )

Genders == {"Boy", "Girl"}

\* Faulty variant of truncateToOneDecimal: Math.round in place of Math.floor.
roundToOneDecimal(num) == IF IsNumber(num) THEN ((num + 5) \div 10) * 10 ELSE NaN

\* Math.floor(num * 10) / 10 on a time held in hundredths.
truncateToOneDecimal(num) == IF IsNumber(num) THEN (num \div 10) * 10 ELSE NaN

\* Faulty variant of foundRangeScore: foundRange.score read with no range found.
foundRangeScoreUnguarded(ranges, value) ==
  LET i == FirstTrue([k \in DOMAIN ranges |->
                         Geq(value, ranges[k].min) /\ Leq(value, ranges[k].max)])
  IN  IF i = 0 THEN TypeError ELSE ranges[i].score

\* ranges.find(range => value >= range.min && value <= range.max), then its
\* score, or 0 when no range matches.
foundRangeScore(ranges, value) ==
  LET i == FirstTrue([k \in DOMAIN ranges |->
                         Geq(value, ranges[k].min) /\ Leq(value, ranges[k].max)])
  IN  IF i = 0 THEN 0 ELSE ranges[i].score

\* Faulty variant of calculateScore: the second try is never looked at.
calculateScoreOfFirstTry(component, gender, firstTry, secondTry) ==
  IF gender \notin DOMAIN scoringTables[component] THEN TypeError
  ELSE LET ranges == scoringTables[component][gender] IN
       IF component = "50msprint"
       THEN foundRangeScore(ranges, truncateToOneDecimal(ToNumber(firstTry)))
       ELSE foundRangeScore(ranges, ToNumber(firstTry))

calculateScore(component, gender, firstTry, secondTry) ==
  IF gender \notin DOMAIN scoringTables[component] THEN TypeError
  ELSE LET ranges == scoringTables[component][gender] IN
       IF component = "50msprint"
       THEN foundRangeScore(ranges, truncateToOneDecimal(ToNumber(firstTry)))
       ELSE foundRangeScore(ranges, MathMax(<<firstTry, secondTry>>))

gradeThresholds ==
     <<"G", "1">> :> <<39, 33, 27, 22, 2>>
  @@ <<"G", "2">> :> <<47, 41, 34, 27, 26>>
  @@ <<"G", "3">> :> <<53, 46, 39, 32, 31>>
  @@ <<"G", "4">> :> <<59, 52, 45, 38, 37>>
  @@ <<"G", "5">> :> <<65, 58, 50, 42, 41>>
  @@ <<"G", "6">> :> <<71, 63, 55, 46, 45>>

\* str.slice(from, to) with 0-based from and exclusive to, both within the string.
Slice(str, from, to) == SubSeq(str, from + 1, IF to > Len(str) THEN Len(str) ELSE to)

\* String.fromCharCode(65 + i)
fromCharCode65(i) == <<"A", "B", "C", "D", "E">>[i + 1]

\* Faulty variant of determineGrade: a threshold is met only when exceeded.
determineGradeAbove(totalScore, gradeLevel) ==
  LET key == Slice(gradeLevel, 0, 2) IN
  IF key \notin DOMAIN gradeThresholds THEN "TypeError"
  ELSE LET thresholds == gradeThresholds[key]
           i == FirstTrue([k \in DOMAIN thresholds |->
                              IsNumber(totalScore) /\ totalScore > thresholds[k]])
       IN  IF i = 0 THEN "E" ELSE fromCharCode65(i - 1)

determineGrade(totalScore, gradeLevel) ==
  LET key == Slice(gradeLevel, 0, 2) IN
  IF key \notin DOMAIN gradeThresholds THEN "TypeError"
  ELSE LET thresholds == gradeThresholds[key]
           i == FirstTrue([k \in DOMAIN thresholds |-> Geq(totalScore, thresholds[k])])
       IN  IF i = 0 THEN "E" ELSE fromCharCode65(i - 1)

\* Object.keys(componentOrder), in insertion order.
componentOrder ==
  <<"gripStrength", "situps", "seatedtoetouch", "sidesteps",
    "20mshuttleruns", "50msprint", "longjump", "softballthrowing">>

Components == {componentOrder[i] : i \in DOMAIN componentOrder}

\* Faulty variant of SumScores: grip strength counted once for each hand.
SumScoresGripPerHand(scores, keys) ==
  IF keys = <<>> THEN 0
  ELSE 2 * scores["gripStrength"] + scores["situps"] + scores["seatedtoetouch"]
       + scores["sidesteps"] + scores["20mshuttleruns"] + scores["50msprint"]
       + scores["longjump"] + scores["softballthrowing"]

RECURSIVE SumScores(_, _)
SumScores(scores, keys) ==
  IF keys = <<>> THEN 0 ELSE scores[Head(keys)] + SumScores(scores, Tail(keys))

\* The score cell of the edit view's grip-strength row.
renderGripStrength(student) ==
  LET maxGripStrength ==
        MathMax(<<Get(student["1sttry"], "gripstrR"), Get(student["2ndtry"], "gripstrR"),
                  Get(student["1sttry"], "gripstrL"), Get(student["2ndtry"], "gripstrL")>>)
  IN  calculateScore("gripStrength", student["gender"], maxGripStrength, 0)

\* The score column, the total and the grade of the edit view.
renderEditView(student) ==
  LET score(component) ==
        IF component = "gripStrength" THEN renderGripStrength(student)
        ELSE LET firstTry == Get(student["1sttry"], component)
                 secondTry == Coalesce(Get(student["2ndtry"], component), firstTry)
             IN  calculateScore(component, student["gender"], firstTry, secondTry)
      scores == [component \in Components |-> score(component)]
      totalScore == SumScores(scores, componentOrder)
  IN  [scores |-> scores, totalScore |-> totalScore,
       grade |-> determineGrade(totalScore, student["class"])]

\* The display names componentOrder gives the components.
componentLabel ==
  [key \in Components |->
     CASE key = "gripStrength" -> "Grip Strength"
       [] key = "situps" -> "Sit-ups"
       [] key = "seatedtoetouch" -> "Seated Toe Touch"
       [] key = "sidesteps" -> "Side Steps"
       [] key = "20mshuttleruns" -> "20 m Shuttle Runs"
       [] key = "50msprint" -> "50 m Sprint"
       [] key = "longjump" -> "Long Jump"
       [] key = "softballthrowing" -> "Softball Throwing"]

getUnitForComponent(component) ==
  CASE component = "50msprint" -> "seconds"
    [] component \in {"longjump", "seatedtoetouch"} -> "cm"
    [] component = "softballthrowing" -> "m"
    [] OTHER -> "times"

\* A cell holding `${value}`, and a cell holding the value itself.
TemplateString(value) == <<"text", value>>
NumberCell(value) == <<"number", value>>

\* The rows worksheet.addRow has appended, over the components in order.
RECURSIVE ConcatRows(_)
ConcatRows(groups) ==
  IF groups = <<>> THEN <<>> ELSE Head(groups) \o ConcatRows(Tail(groups))

\* The sheet of one student in the zip export: the name cell, the rows of
\* the components with their score column, the total and the grade.
individualWorkbookSheet(student, i) ==
  LET firstTryR == Get(student["1sttry"], "gripstrR")
      secondTryR == Coalesce(Get(student["2ndtry"], "gripstrR"), firstTryR)
      firstTryL == Get(student["1sttry"], "gripstrL")
      secondTryL == Coalesce(Get(student["2ndtry"], "gripstrL"), firstTryL)
      maxGripStrength == MathMax(<<firstTryR, secondTryR, firstTryL, secondTryL>>)
      firstTry(key) == Get(student["1sttry"], key)
      secondTry(key) == Coalesce(Get(student["2ndtry"], key), firstTry(key))
      score(key) ==
        IF key = "gripStrength"
        THEN calculateScore("gripStrength", student["gender"], maxGripStrength, 0)
        ELSE IF key \in {"situps", "50msprint", "20mshuttleruns"}
        THEN calculateScore(key, student["gender"], firstTry(key), 0)
        ELSE calculateScore(key, student["gender"], firstTry(key), secondTry(key))
      rowsOf(key) ==
        IF key = "gripStrength"
        THEN << <<"Grip Strength", "", "R", "1:", TemplateString(firstTryR), "kg", "2:",
                  TemplateString(secondTryR), "kg", NumberCell(score(key))>>,
                <<"Grip Strength", "", "L", "1:", TemplateString(firstTryL), "kg", "2:",
                  TemplateString(secondTryL), "kg", NumberCell(score(key))>>,
                <<"", "", "Avg: ", TemplateString(maxGripStrength), "", "", "", "", "kg", "">> >>
        ELSE IF key \in {"situps", "20mshuttleruns"}
        THEN << <<componentLabel[key], "", TemplateString(firstTry(key)), "", "", "", "", "",
                  getUnitForComponent(key), NumberCell(score(key))>> >>
        ELSE IF key = "50msprint"
        THEN << <<componentLabel[key], "", TemplateString(firstTry(key)), "", "", "", "",
                  getUnitForComponent(key), "", NumberCell(score(key))>> >>
        ELSE << <<componentLabel[key], "", "", "1:", NumberCell(firstTry(key)),
                  getUnitForComponent(key), "2:", NumberCell(secondTry(key)),
                  getUnitForComponent(key), NumberCell(score(key))>> >>
      scores == [key \in Components |-> score(key)]
      totalScore == SumScores(scores, componentOrder)
      grade == determineGrade(totalScore, student["class"])
  IN  [name |-> <<i, student["enname"]>>, scores |-> scores, totalScore |-> totalScore,
       grade |-> grade,
       rows |-> ConcatRows([k \in DOMAIN componentOrder |-> rowsOf(componentOrder[k])])
                \o << <<"Total Score", "", "", "", "", "", "", "", "", NumberCell(totalScore)>>,
                       <<"Grade", "", "", "", "", "", "", "", "", grade>> >>]

\* Faulty variant of singleWorkbookSheet: the name cell numbered with the
\* index of forEach, which starts at 0.
singleWorkbookSheetByIndex(student, i) ==
  LET firstTryR == Get(student["1sttry"], "gripstrR")
      secondTryR == Coalesce(Get(student["2ndtry"], "gripstrR"), firstTryR)
      firstTryL == Get(student["1sttry"], "gripstrL")
      secondTryL == Coalesce(Get(student["2ndtry"], "gripstrL"), firstTryL)
      maxGripStrength == MathMax(<<firstTryR, secondTryR, firstTryL, secondTryL>>)
      firstTry(key) == Get(student["1sttry"], key)
      secondTry(key) == Coalesce(Get(student["2ndtry"], key), firstTry(key))
      score(key) ==
        IF key = "gripStrength"
        THEN calculateScore("gripStrength", student["gender"], maxGripStrength, 0)
        ELSE IF key \in {"situps", "50msprint", "20mshuttleruns"}
        THEN calculateScore(key, student["gender"], firstTry(key), 0)
        ELSE calculateScore(key, student["gender"], firstTry(key), secondTry(key))
      rowsOf(key) ==
        IF key = "gripStrength"
        THEN << <<"Grip Strength", "", "R", "1:", TemplateString(firstTryR), "kg", "2:",
                  TemplateString(secondTryR), "kg", NumberCell(score(key))>>,
                <<"Grip Strength", "", "L", "1:", TemplateString(firstTryL), "kg", "2:",
                  TemplateString(secondTryL), "kg", NumberCell(score(key))>>,
                <<"", "", "Avg: ", TemplateString(maxGripStrength), "", "", "", "", "kg", "">> >>
        ELSE IF key \in {"situps", "20mshuttleruns"}
        THEN << <<componentLabel[key], "", TemplateString(firstTry(key)), "", "", "", "", "",
                  getUnitForComponent(key), NumberCell(score(key))>> >>
        ELSE IF key = "50msprint"
        THEN << <<componentLabel[key], "", TemplateString(firstTry(key)), "", "", "", "",
                  getUnitForComponent(key), "", NumberCell(score(key))>> >>
        ELSE << <<componentLabel[key], "", "", "1:", NumberCell(firstTry(key)),
                  getUnitForComponent(key), "2:", NumberCell(secondTry(key)),
                  getUnitForComponent(key), NumberCell(score(key))>> >>
      scores == [key \in Components |-> score(key)]
      totalScore == SumScores(scores, componentOrder)
      grade == determineGrade(totalScore, student["class"])
  IN  [name |-> <<i - 1, student["enname"]>>, scores |-> scores, totalScore |-> totalScore,
       grade |-> grade,
       rows |-> ConcatRows([k \in DOMAIN componentOrder |-> rowsOf(componentOrder[k])])
                \o << <<"Total Score", "", "", "", "", "", "", "", "", NumberCell(totalScore)>>,
                       <<"Grade", "", "", "", "", "", "", "", "", grade>> >>]

\* The sheet of one student in the single-workbook export.
singleWorkbookSheet(student, i) ==
  LET firstTryR == Get(student["1sttry"], "gripstrR")
      secondTryR == Coalesce(Get(student["2ndtry"], "gripstrR"), firstTryR)
      firstTryL == Get(student["1sttry"], "gripstrL")
      secondTryL == Coalesce(Get(student["2ndtry"], "gripstrL"), firstTryL)
      maxGripStrength == MathMax(<<firstTryR, secondTryR, firstTryL, secondTryL>>)
      firstTry(key) == Get(student["1sttry"], key)
      secondTry(key) == Coalesce(Get(student["2ndtry"], key), firstTry(key))
      score(key) ==
        IF key = "gripStrength"
        THEN calculateScore("gripStrength", student["gender"], maxGripStrength, 0)
        ELSE IF key \in {"situps", "50msprint", "20mshuttleruns"}
        THEN calculateScore(key, student["gender"], firstTry(key), 0)
        ELSE calculateScore(key, student["gender"], firstTry(key), secondTry(key))
      rowsOf(key) ==
        IF key = "gripStrength"
        THEN << <<"Grip Strength", "", "R", "1:", TemplateString(firstTryR), "kg", "2:",
                  TemplateString(secondTryR), "kg", NumberCell(score(key))>>,
                <<"Grip Strength", "", "L", "1:", TemplateString(firstTryL), "kg", "2:",
                  TemplateString(secondTryL), "kg", NumberCell(score(key))>>,
                <<"", "", "Avg: ", TemplateString(maxGripStrength), "", "", "", "", "kg", "">> >>
        ELSE IF key \in {"situps", "20mshuttleruns"}
        THEN << <<componentLabel[key], "", TemplateString(firstTry(key)), "", "", "", "", "",
                  getUnitForComponent(key), NumberCell(score(key))>> >>
        ELSE IF key = "50msprint"
        THEN << <<componentLabel[key], "", TemplateString(firstTry(key)), "", "", "", "",
                  getUnitForComponent(key), "", NumberCell(score(key))>> >>
        ELSE << <<componentLabel[key], "", "", "1:", NumberCell(firstTry(key)),
                  getUnitForComponent(key), "2:", NumberCell(secondTry(key)),
                  getUnitForComponent(key), NumberCell(score(key))>> >>
      scores == [key \in Components |-> score(key)]
      totalScore == SumScores(scores, componentOrder)
      grade == determineGrade(totalScore, student["class"])
  IN  [name |-> <<i, student["enname"]>>, scores |-> scores, totalScore |-> totalScore,
       grade |-> grade,
       rows |-> ConcatRows([k \in DOMAIN componentOrder |-> rowsOf(componentOrder[k])])
                \o << <<"Total Score", "", "", "", "", "", "", "", "", NumberCell(totalScore)>>,
                       <<"Grade", "", "", "", "", "", "", "", "", grade>> >>]

exportGradeToIndividualWorkbooks(list) ==
  [k \in 1..Len(list) |-> individualWorkbookSheet(list[k], k)]

exportGradeToSingleWorkbook(list) ==
  [k \in 1..Len(list) |-> singleWorkbookSheet(list[k], k)]

\* ------------------------------------------------------- stored records
TrialKeys ==
  {"20mshuttleruns", "50msprint", "aveGrip", "gripstrL", "gripstrR",
   "longjump", "seatedtoetouch", "sidesteps", "situps", "softballthrowing"}

NonTrialFields == {"enname", "jpname", "firstname", "gender", "grade", "class", "teacher"}

ZeroTrials == [k \in TrialKeys |-> 0]

\* The record uploadToFirebase writes for one parsed CSV row.
studentData(student) ==
  [enname |-> student.enname, jpname |-> student.jpname, firstname |-> student.firstname,
   gender |-> student.gender, grade |-> student.grade, class |-> student.class,
   teacher |-> student.teacher]
  @@ ("1sttry" :> ZeroTrials) @@ ("2ndtry" :> ZeroTrials)

G1A == <<"G", "1", "A">>
G2B == <<"G", "2", "B">>

CsvRow(name, gender, class) ==
  [enname |-> name, jpname |-> name, firstname |-> name, gender |-> gender,
   grade |-> Slice(class, 1, 2), class |-> class, teacher |-> "Sato"]

\* new Date().getFullYear().toString()
CurrentYear == "2026"

SchoolYears == {"2025", "2026"}
Grades == {G1A, G2B}
Paths == SchoolYears \X Grades

\* The database the sessions start from: the rosters an import has stored.
InitialDb ==
  [p \in Paths |->
     IF p = <<"2026", G1A>>
     THEN <<studentData(CsvRow("Aoi", "Boy", G1A)), studentData(CsvRow("Beni", "Girl", G1A))>>
     ELSE IF p = <<"2026", G2B>> THEN <<studentData(CsvRow("Chie", "Girl", G2B))>>
     ELSE <<>>]

\* ------------------------------------------------------------- database
\* update(ref, values): each key of values is written at its own location.
\* A key that is a child name ("1sttry") replaces that child of the node and
\* leaves the node's other children alone (kind "merge"); a key that is a
\* path to a node ("2026/G1A/student1") replaces that node (kind "replace").
ApplyWrite(d, w) ==
  LET old == d[w.path]
      node(k) ==
        IF k \notin DOMAIN w.nodes THEN old[k]
        ELSE IF w.kind = "merge" /\ k \in DOMAIN old THEN w.nodes[k] @@ old[k]
        ELSE w.nodes[k]
  IN  [d EXCEPT ![w.path] = [k \in DOMAIN old \cup DOMAIN w.nodes |-> node(k)]]

RECURSIVE ApplyAll(_, _)
ApplyAll(d, jobs) ==
  IF jobs = <<>> THEN d ELSE ApplyAll(ApplyWrite(d, Head(jobs).write), Tail(jobs))

\* What this client sees: the stored data with its own unacknowledged writes applied.
LocalView(d, jobs) == ApplyAll(d, jobs)

\* A storage key is the text "student" followed by the decimal digits of the
\* slot number; the node of a class is held as a function of slot numbers.
DigitChars == <<"0", "1", "2", "3", "4", "5", "6", "7", "8", "9">>

IsDigit(char) == \E d \in 1..10 : DigitChars[d] = char

DigitValue(char) == (CHOOSE d \in 1..10 : DigitChars[d] = char) - 1

\* The decimal text of a number, as a template string writes it.
RECURSIVE ToDigits(_)
ToDigits(n) ==
  IF n < 10 THEN <<DigitChars[n + 1]>>
  ELSE Append(ToDigits(n \div 10), DigitChars[(n % 10) + 1])

\* `student${i + 1}`
studentKey(slot) == <<"student">> \o ToDigits(slot)

\* key.match(/\d+$/)?.[0] || '0': the digits the key ends with, '0' when it
\* ends with none.
RECURSIVE TrailingDigits(_)
TrailingDigits(key) ==
  IF key = <<>> \/ ~IsDigit(key[Len(key)]) THEN <<>>
  ELSE Append(TrailingDigits(SubSeq(key, 1, Len(key) - 1)), key[Len(key)])

RECURSIVE parseInt(_)
parseInt(digits) ==
  IF digits = <<>> THEN 0
  ELSE 10 * parseInt(SubSeq(digits, 1, Len(digits) - 1)) + DigitValue(digits[Len(digits)])

keyNumber(key) ==
  LET match == TrailingDigits(key) IN parseInt(IF match = <<>> THEN <<"0">> ELSE match)

\* The order of the characters of a key: the digits in their order, before
\* the letters.
CharRank(char) == IF IsDigit(char) THEN DigitValue(char) ELSE 10

\* key1 comes before key2 in the order of strings.
KeyBefore(key1, key2) ==
  \E i \in 1..(Len(key1) + 1) :
    /\ \A j \in 1..(i - 1) : j <= Len(key2) /\ key1[j] = key2[j]
    /\ i <= Len(key2)
    /\ i > Len(key1) \/ CharRank(key1[i]) < CharRank(key2[i])

\* Object.entries(data) of a snapshot value: the [key, value] pairs in the
\* order of the snapshot's children, which is the order of the keys as
\* strings ("student10" before "student2").
RECURSIVE ObjectEntries(_, _)
ObjectEntries(data, slots) ==
  IF slots = {} THEN <<>>
  ELSE LET first == CHOOSE k \in slots :
                      \A j \in slots \ {k} : KeyBefore(studentKey(k), studentKey(j))
       IN  <<[key |-> studentKey(first), student |-> data[first]]>>
           \o ObjectEntries(data, slots \ {first})

\* Faulty variant of sortByKeyNumber: the entries are left in the order of
\* the keys as strings.
sortByKeyNumberNot(entries) == entries

\* entries.sort((a, b) => numA - numB) on the number that ends each key: a
\* stable sort.
RECURSIVE sortByKeyNumber(_)
sortByKeyNumber(entries) ==
  IF entries = <<>> THEN <<>>
  ELSE LET last == entries[Len(entries)]
           rest == sortByKeyNumber(SubSeq(entries, 1, Len(entries) - 1))
           notAfter == {i \in DOMAIN rest : keyNumber(rest[i].key) <= keyNumber(last.key)}
           at == IF notAfter = {} THEN 0 ELSE SetMax(notAfter)
       IN  SubSeq(rest, 1, at) \o <<last>> \o SubSeq(rest, at + 1, Len(rest))

\* The student list the onValue callback of PhFitnessRecord builds.
studentList(data) ==
  LET sortedStudents == sortByKeyNumber(ObjectEntries(data, DOMAIN data))
  IN  [i \in DOMAIN sortedStudents |-> sortedStudents[i].student]

\* ---------------------------------------------------- PhFitnessRecord
Null == -1

NoCont == [set |-> FALSE, index |-> Null]

SelectedPath == <<selectedSchoolYear, selectedGrade>>

\* The { '1sttry', '2ndtry' } object a save sends for one student.
trialsOf(student) ==
  ("1sttry" :> student["1sttry"]) @@ ("2ndtry" :> student["2ndtry"])

\* The keydown listener does nothing while no student is edited.
NoClosure == [hasUnsavedChanges |-> FALSE, students |-> <<>>, path |-> <<>>]

\* The keyboard effect, run after the render a step ends with: when
\* currentStudentIndex or students.length has changed, the keydown listener
\* is replaced by one that closes over the state of that render; otherwise
\* the listener in place, with the state it closed over, stays.
KeyboardEffect ==
  keyClosure' =
    IF currentStudentIndex' = Null THEN NoClosure
    ELSE IF currentStudentIndex' # currentStudentIndex \/ Len(students') # Len(students)
    THEN [hasUnsavedChanges |-> hasUnsavedChanges', students |-> students',
          path |-> <<selectedSchoolYear', selectedGrade'>>]
    ELSE keyClosure

\* Faulty variant of onValueCallback: the unsaved-edits flag is left as it is.
onValueCallbackKeepsFlag(data) ==
  /\ students' = studentList(data)
  /\ currentStudentIndex' = Null
  /\ hasUnsavedChanges' = hasUnsavedChanges

\* The body of the onValue callback of the students effect.
onValueCallback(data) ==
  /\ students' = studentList(data)
  /\ currentStudentIndex' = Null
  /\ hasUnsavedChanges' = FALSE

\* A listener is called for a path when it is attached there and the
\* path's data has been loaded.
Listening(path) == path \in subs /\ path \notin pending

\* The first snapshot of a newly attached listener arrives.
SnapshotArrives(path) ==
  /\ pc = "idle"
  /\ path \in subs /\ path \in pending
  /\ pending' = pending \ {path}
  /\ onValueCallback(LocalView(db, inflight)[path])
  /\ lastOp' = [op |-> "onValue", path |-> path, cleared |-> hasUnsavedChanges]
  /\ UNCHANGED <<db, selectedSchoolYear, selectedGrade, isSaving, subs, effectRef, pc,
                 inflight, writes, smVars, scVars, csvVars>>
  /\ KeyboardEffect

handleInputChange(type, tryNumber, value) ==
  /\ pc = "idle"
  /\ currentStudentIndex # Null
  /\ currentStudentIndex + 1 \in DOMAIN students
  /\ students' = [students EXCEPT ![currentStudentIndex + 1] =
                    (tryNumber :> ((type :> value) @@ @[tryNumber])) @@ @]
  /\ hasUnsavedChanges' = TRUE
  /\ lastOp' = [op |-> "ui"]
  /\ UNCHANGED <<db, currentStudentIndex, selectedSchoolYear, selectedGrade, isSaving,
                 subs, pending, effectRef, pc, inflight, writes, smVars, scVars, csvVars>>
  /\ KeyboardEffect

\* update() is called: the write is queued for the server and applied to
\* the local view at once, which calls the listener of its path when the
\* data there changes.
IssueWrite(op, w, cont) ==
  LET jobs == Append(inflight, [op |-> op, write |-> w, cont |-> cont])
      before == LocalView(db, inflight)[w.path]
      after == LocalView(db, jobs)[w.path]
  IN  /\ writes > 0
      /\ writes' = writes - 1
      /\ inflight' = jobs
      /\ isSaving' = TRUE
      /\ IF Listening(w.path) /\ before # after
         THEN onValueCallback(after)
         ELSE UNCHANGED <<students, currentStudentIndex, hasUnsavedChanges>>

saveCurrentStudentWrite ==
  [path |-> SelectedPath, kind |-> "merge",
   nodes |-> (currentStudentIndex + 1) :> trialsOf(students[currentStudentIndex + 1])]

\* saveCurrentStudent up to its await, entered from a handler that goes on
\* with setCurrentStudentIndex(cont.index) after it.
saveCurrentStudent(cont) ==
  /\ hasUnsavedChanges /\ currentStudentIndex # Null
  /\ currentStudentIndex + 1 \in DOMAIN students
  /\ IssueWrite("saveCurrentStudent", saveCurrentStudentWrite, cont)

saveAllChangesWrite ==
  [path |-> SelectedPath, kind |-> "replace",
   nodes |-> [k \in DOMAIN students |-> trialsOf(students[k])]]

saveAllChanges ==
  /\ pc = "idle"
  /\ hasUnsavedChanges /\ currentStudentIndex # Null /\ ~isSaving
  /\ IssueWrite("saveAllChanges", saveAllChangesWrite, NoCont)
  /\ lastOp' = [op |-> "ui"]
  /\ UNCHANGED <<db, selectedSchoolYear, selectedGrade, subs, pending, effectRef, pc,
                 smVars, scVars, csvVars>>
  /\ KeyboardEffect

handleStudentSelect(index) ==
  /\ pc = "idle"
  /\ currentStudentIndex = Null
  /\ index + 1 \in DOMAIN students
  /\ currentStudentIndex' = index
  /\ lastOp' = [op |-> "ui"]
  /\ UNCHANGED <<db, students, selectedSchoolYear, selectedGrade, hasUnsavedChanges,
                 isSaving, subs, pending, effectRef, pc, inflight, writes, smVars, scVars, csvVars>>
  /\ KeyboardEffect

handleBackToList ==
  /\ pc = "idle"
  /\ currentStudentIndex # Null /\ ~isSaving
  /\ IF hasUnsavedChanges /\ currentStudentIndex + 1 \in DOMAIN students
     THEN saveCurrentStudent([set |-> TRUE, index |-> Null])
     ELSE /\ currentStudentIndex' = Null
          /\ UNCHANGED <<students, hasUnsavedChanges, isSaving, inflight, writes>>
  /\ lastOp' = [op |-> "ui"]
  /\ UNCHANGED <<db, selectedSchoolYear, selectedGrade, subs, pending, effectRef, pc,
                 smVars, scVars, csvVars>>
  /\ KeyboardEffect

\* handleKeyPress of the keydown listener in place. It calls the
\* handleStudentSelect it closed over, which decides on its save, and makes
\* it, with the state of the render it closed over.
handleKeyPress(key) ==
  /\ pc = "idle"
  /\ currentStudentIndex # Null
  /\ \/ key = "ArrowLeft" /\ currentStudentIndex > 0
     \/ key = "ArrowRight" /\ currentStudentIndex < Len(students) - 1
  /\ LET index == IF key = "ArrowLeft" THEN currentStudentIndex - 1
                  ELSE currentStudentIndex + 1
         slot == currentStudentIndex + 1
     IN  IF keyClosure.hasUnsavedChanges /\ slot \in DOMAIN keyClosure.students
         THEN IssueWrite("saveCurrentStudent",
                         [path |-> keyClosure.path, kind |-> "merge",
                          nodes |-> slot :> trialsOf(keyClosure.students[slot])],
                         [set |-> TRUE, index |-> index])
         ELSE /\ currentStudentIndex' = index
              /\ isSaving' = IF keyClosure.hasUnsavedChanges THEN FALSE ELSE isSaving
              /\ UNCHANGED <<students, hasUnsavedChanges, inflight, writes>>
  /\ lastOp' = [op |-> "ui"]
  /\ UNCHANGED <<db, selectedSchoolYear, selectedGrade, subs, pending, effectRef, pc,
                 smVars, scVars, csvVars>>
  /\ KeyboardEffect

\* The awaited update() settles: the server has applied the write (ok) or
\* refused it, and then the local view falls back to the stored data.
WriteSettles(ok) ==
  /\ pc = "idle"
  /\ inflight # <<>>
  /\ LET job == Head(inflight)
         rest == Tail(inflight)
         stored == IF ok THEN ApplyWrite(db, job.write) ELSE db
         before == LocalView(db, inflight)[job.write.path]
         after == LocalView(stored, rest)[job.write.path]
         reverted == Listening(job.write.path) /\ before # after
     IN  /\ db' = stored
         /\ inflight' = rest
         /\ isSaving' = FALSE
         /\ students' = IF reverted THEN studentList(after) ELSE students
         /\ hasUnsavedChanges' = IF ok \/ reverted THEN FALSE ELSE hasUnsavedChanges
         /\ currentStudentIndex' =
              IF job.cont.set THEN job.cont.index
              ELSE IF reverted THEN Null ELSE currentStudentIndex
         /\ lastOp' = [op |-> "settled", of |-> job.op, ok |-> ok]
  /\ UNCHANGED <<selectedSchoolYear, selectedGrade, subs, pending, effectRef, pc, writes,
                 smVars, scVars, csvVars>>
  /\ KeyboardEffect

handleSchoolYearChange(value, confirm) ==
  /\ pc = "idle"
  /\ value \in SchoolYears /\ value # selectedSchoolYear
  /\ hasUnsavedChanges \/ confirm
  /\ IF hasUnsavedChanges /\ ~confirm
     THEN UNCHANGED <<selectedSchoolYear, pc>>
     ELSE selectedSchoolYear' = value /\ pc' = "cleanup"
  /\ lastOp' = [op |-> "handleSchoolYearChange", confirm |-> confirm]
  /\ UNCHANGED <<db, students, currentStudentIndex, selectedGrade, hasUnsavedChanges,
                 isSaving, subs, pending, effectRef, inflight, writes, smVars, scVars, csvVars>>
  /\ KeyboardEffect

\* Faulty variant of handleGradeChange: the answer to the confirmation is
\* not looked at.
handleGradeChangeAnyway(value, confirm) ==
  /\ pc = "idle"
  /\ value \in Grades /\ value # selectedGrade
  /\ hasUnsavedChanges \/ confirm
  /\ selectedGrade' = value /\ pc' = "cleanup"
  /\ lastOp' = [op |-> "handleGradeChange", confirm |-> confirm]
  /\ UNCHANGED <<db, students, currentStudentIndex, selectedSchoolYear, hasUnsavedChanges,
                 isSaving, subs, pending, effectRef, inflight, writes, smVars, scVars, csvVars>>
  /\ KeyboardEffect

handleGradeChange(value, confirm) ==
  /\ pc = "idle"
  /\ value \in Grades /\ value # selectedGrade
  /\ hasUnsavedChanges \/ confirm
  /\ IF hasUnsavedChanges /\ ~confirm
     THEN UNCHANGED <<selectedGrade, pc>>
     ELSE selectedGrade' = value /\ pc' = "cleanup"
  /\ lastOp' = [op |-> "handleGradeChange", confirm |-> confirm]
  /\ UNCHANGED <<db, students, currentStudentIndex, selectedSchoolYear, hasUnsavedChanges,
                 isSaving, subs, pending, effectRef, inflight, writes, smVars, scVars, csvVars>>
  /\ KeyboardEffect

\* Faulty variant of Unsubscribe: the cleanup detaches nothing.
UnsubscribeNothing(listeners, ref) == listeners

\* unsubscribe() of the effect run in force: its listener is detached.
Unsubscribe(listeners, ref) == listeners \ {ref}

\* The cleanup the students effect returned, run before the effect re-runs.
EffectCleanup ==
  /\ pc = "cleanup"
  /\ subs' = Unsubscribe(subs, effectRef)
  /\ pending' = pending \cap subs'
  /\ pc' = "setup"
  /\ lastOp' = [op |-> "cleanup"]
  /\ UNCHANGED <<db, students, currentStudentIndex, selectedSchoolYear, selectedGrade,
                 hasUnsavedChanges, isSaving, effectRef, inflight, writes, smVars, scVars, csvVars>>
  /\ KeyboardEffect

\* The students effect re-runs: onValue attaches a listener at the selected path.
EffectSetup ==
  /\ pc = "setup"
  /\ subs' = subs \cup {SelectedPath}
  /\ pending' = pending \cup {SelectedPath}
  /\ effectRef' = SelectedPath
  /\ pc' = "idle"
  /\ lastOp' = [op |-> "onValueAttach"]
  /\ UNCHANGED <<db, students, currentStudentIndex, selectedSchoolYear, selectedGrade,
                 hasUnsavedChanges, isSaving, inflight, writes, smVars, scVars, csvVars>>
  /\ KeyboardEffect

\* ------------------------------------------------------------ CsvUpload
\* A text is the sequence of its characters, where a run of characters that
\* holds no comma, no line break and no white space may stand as one element.
WhiteSpace == {" ", "\t", "\r"}

\* text.split(separator)
RECURSIVE split(_, _)
split(text, separator) ==
  IF \A i \in DOMAIN text : text[i] # separator THEN <<text>>
  ELSE LET at == CHOOSE i \in DOMAIN text :
                   text[i] = separator /\ \A j \in 1..(i - 1) : text[j] # separator
       IN  <<SubSeq(text, 1, at - 1)>> \o split(SubSeq(text, at + 1, Len(text)), separator)

\* Faulty variant of trim: the white space at the end of the text is kept.
RECURSIVE trimStart(_)
trimStart(text) ==
  IF text # <<>> /\ Head(text) \in WhiteSpace THEN trimStart(Tail(text))
  ELSE text

\* text.trim()
RECURSIVE trim(_)
trim(text) ==
  IF text # <<>> /\ Head(text) \in WhiteSpace THEN trim(Tail(text))
  ELSE IF text # <<>> /\ text[Len(text)] \in WhiteSpace
  THEN trim(SubSeq(text, 1, Len(text) - 1))
  ELSE text

RequiredFields == <<"enname", "jpname", "firstname", "gender", "grade", "class", "teacher">>

\* processCSV(csvData). A row is held as a record of the header names; a
\* header that is empty or of several words names no field the program
\* reads and is left out of the record.
processCSV(csvData) ==
  LET lines == split(csvData, "\n")
      cells(line) == LET parts == split(line, ",") IN [i \in DOMAIN parts |-> trim(parts[i])]
      headers == cells(lines[1])
      names == {headers[i][1] : i \in {j \in DOMAIN headers : Len(headers[j]) = 1}}
      rowOf(line) ==
        LET values == cells(line)
        IN  [header \in names |->
               LET index == SetMax({i \in DOMAIN headers : headers[i] = <<header>>})
               IN  IF index \in DOMAIN values THEN values[index] ELSE <<>>]
      rows == [i \in 1..(Len(lines) - 1) |-> rowOf(lines[i + 1])]
      filled(student) ==
        \A i \in DOMAIN RequiredFields :
          RequiredFields[i] \in DOMAIN student /\ student[RequiredFields[i]] # <<>>
  IN  SelectSeq(rows, filled)

\* Faulty variant of uploadCalls: a row is stored at the key of its place in
\* the file.
uploadCallsByLine(rows) ==
  [i \in DOMAIN rows |->
     [path |-> <<CurrentYear, rows[i].class>>, slot |-> i, key |-> studentKey(i),
      data |-> studentData(rows[i])]]

\* The set() calls of uploadToFirebase, in the order it makes them: the
\* classes in the order of their first rows, the rows of a class in their
\* order, the i-th of them at student{i}.
uploadCalls(rows) ==
  LET classAt(i) == rows[i].class
      firstOf(i) == \A j \in 1..(i - 1) : classAt(j) # classAt(i)
      firstRows == SelectSeq([i \in DOMAIN rows |-> i], firstOf)
      rowsOf(class) == SelectSeq(rows, LAMBDA student : student.class = class)
      callsOf(class) ==
        [i \in DOMAIN rowsOf(class) |->
           [path |-> <<CurrentYear, class>>, slot |-> i, key |-> studentKey(i),
            data |-> studentData(rowsOf(class)[i])]]
  IN  ConcatRows([c \in DOMAIN firstRows |-> callsOf(classAt(firstRows[c]))])

\* Faulty variant of setStudent: the record is merged into the node at the key.
setStudentMerged(d, call) ==
  ApplyWrite(d, [path |-> call.path, kind |-> "merge", nodes |-> call.slot :> call.data])

\* set(studentRef, studentData): the node at the key is replaced.
setStudent(d, call) ==
  ApplyWrite(d, [path |-> call.path, kind |-> "replace", nodes |-> call.slot :> call.data])

NoFile == [selected |-> FALSE, text |-> <<>>]

\* uploadToFirebase has returned: the finally block of handleUpload.
uploadEnds(text) ==
  /\ message' = text
  /\ uploading' = FALSE
  /\ uploadQueue' = <<>>

\* handleUpload up to the first set() it awaits.
handleUpload ==
  /\ file.selected /\ ~uploading
  /\ LET rows == processCSV(file.text)
         calls == uploadCalls(rows)
     IN  /\ csvStudents' = rows
         /\ IF calls = <<>>
            THEN uploadEnds("Successfully uploaded student data!")
            ELSE /\ uploading' = TRUE
                 /\ message' = "Uploading..."
                 /\ uploadQueue' = calls
  /\ lastOp' = [op |-> "handleUpload"]
  /\ UNCHANGED <<db, pfVars, smVars, scVars, file, downloaded>>

\* The awaited set() settles: the record is stored and the loop goes on to
\* its next call, or the call is refused and the catch block ends the upload.
\* A stored record is a change of the class data, which calls the listener
\* PhFitnessRecord has on the class, and of which the server notifies
\* StudentManagement when it has loaded the class.
setSettles(ok) ==
  /\ pc = "idle"
  /\ uploading /\ uploadQueue # <<>>
  /\ LET call == Head(uploadQueue)
         stored == IF ok THEN setStudent(db, call) ELSE db
         before == LocalView(db, inflight)[call.path]
         after == LocalView(stored, inflight)[call.path]
     IN  /\ db' = stored
         /\ IF Listening(call.path) /\ before # after
            THEN onValueCallback(after)
            ELSE UNCHANGED <<students, currentStudentIndex, hasUnsavedChanges>>
         /\ IF ~ok THEN uploadEnds("Error uploading data. Please try again.")
            ELSE IF Tail(uploadQueue) = <<>>
            THEN uploadEnds("Successfully uploaded student data!")
            ELSE /\ uploadQueue' = Tail(uploadQueue)
                 /\ UNCHANGED <<uploading, message>>
         /\ smQueue' = IF stored # db /\ call.path \in smLoaded
                        THEN Append(smQueue, call.path) ELSE smQueue
         /\ lastOp' = [op |-> "set", path |-> call.path, slot |-> call.slot, ok |-> ok]
  /\ UNCHANGED <<selectedSchoolYear, selectedGrade, isSaving, subs, pending, effectRef, pc,
                 inflight, writes, smYear, smGrade, smStudents, smAlias, smSubs, smRuns,
                 smLoaded, scVars, file, csvStudents, downloaded>>
  /\ KeyboardEffect

\* -------------------------------------------------- StudentManagement
AllGrades == <<>>        \* the "" option of the grade select

\* The grades list read from the 'grade' path, in its stored order.
grades == <<G1A, G2B>>

SmPath == <<smYear, smGrade>>

\* Object.entries(data).map(([key, studentData]) => ({ key, student })).
entriesOf(data) == ObjectEntries(data, DOMAIN data)

\* The same entries sorted by the number that ends the key, as the callback
\* of the single-grade branch sorts them.
sortedEntriesOf(data) == sortByKeyNumber(entriesOf(data))

\* The roster the Download CSV button hands to downloadCSV: the array held
\* in state, which after the all-grades branch is the effect run's own
\* allStudents array.
Roster == IF smAlias = 0 THEN smStudents ELSE smRuns[smAlias].allStudents

\* The listeners of one effect run, in the order onValue attached them.
listenersOf(run, year, grade) ==
  IF grade = AllGrades
  THEN [i \in DOMAIN grades |-> [run |-> run, mode |-> "all", path |-> <<year, grades[i]>>]]
  ELSE <<[run |-> run, mode |-> "one", path |-> <<year, grade>>]>>

\* Every listener attached at the paths in `fired` is called with the data
\* stored there: a single-grade listener sets the roster, an all-grades
\* listener pushes onto its run's allStudents and resolves its promise, and a
\* run whose promises are all resolved then sets the roster to allStudents.
\* `listeners` and `runs` are the listeners and the runs to call them on.
RECURSIVE pushAll(_, _, _)
pushAll(runs, listeners, fired) ==
  IF listeners = <<>> THEN runs
  ELSE LET l == Head(listeners)
           next == IF l.mode = "all" /\ l.path \in fired
                   THEN [runs EXCEPT ![l.run].allStudents = @ \o entriesOf(db[l.path]),
                                     ![l.run].waiting = @ \ {l.path}]
                   ELSE runs
       IN  pushAll(next, Tail(listeners), fired)

Fire(op, listeners, runs, fired) ==
  LET pushed == pushAll(runs, listeners, fired)
      settling == {r \in DOMAIN pushed : pushed[r].mode = "all" /\ ~pushed[r].settled
                                          /\ pushed[r].waiting = {}}
      ones == {i \in DOMAIN listeners : listeners[i].mode = "one"
                                        /\ listeners[i].path \in fired}
      lastOne == listeners[SetMax(ones)]
  IN  /\ smRuns' = [r \in DOMAIN pushed |->
                      IF r \in settling THEN [pushed[r] EXCEPT !.settled = TRUE]
                      ELSE pushed[r]]
      /\ smAlias' = IF settling # {} THEN SetMax(settling)
                    ELSE IF ones # {} THEN 0 ELSE smAlias
      /\ smStudents' = IF ones # {} THEN sortedEntriesOf(db[lastOne.path]) ELSE smStudents
      /\ lastOp' = [op |-> op,
                    setters |-> {<<"one", listeners[i].path[1], listeners[i].path[2]>> : i \in ones}
                                \cup {<<"all", pushed[r].year, AllGrades>> : r \in settling}]

\* The students effect of StudentManagement runs for a new selection. It
\* returns no cleanup: the listeners of earlier runs stay attached.
smEffect(year, grade) ==
  LET run == Len(smRuns) + 1
      added == listenersOf(run, year, grade)
      paths == {added[i].path : i \in DOMAIN added}
      newRun == [mode |-> IF grade = AllGrades THEN "all" ELSE "one", year |-> year,
                 allStudents |-> <<>>, waiting |-> IF grade = AllGrades THEN paths ELSE {},
                 settled |-> grade # AllGrades]
      asked == {smQueue[i] : i \in DOMAIN smQueue}
      isNew(l) == l.path \notin smLoaded \cup asked
      toAsk == [i \in DOMAIN SelectSeq(added, isNew) |-> SelectSeq(added, isNew)[i].path]
  IN  /\ smSubs' = smSubs \o added
      /\ smQueue' = smQueue \o toAsk
      /\ Fire("smSelect", added, Append(smRuns, newRun), paths \cap smLoaded)
      /\ UNCHANGED smLoaded

smSelectSchoolYear(value) ==
  /\ value \in SchoolYears /\ value # smYear
  /\ Len(smRuns) < MaxRuns
  /\ smYear' = value
  /\ smGrade' = smGrade
  /\ smEffect(value, smGrade)
  /\ UNCHANGED <<db, pfVars, scVars, csvVars>>

smSelectGrade(value) ==
  /\ value \in Grades \cup {AllGrades} /\ value # smGrade
  /\ Len(smRuns) < MaxRuns
  /\ smGrade' = value
  /\ smYear' = smYear
  /\ smEffect(smYear, value)
  /\ UNCHANGED <<db, pfVars, scVars, csvVars>>

\* The data of the path asked for first arrives from the server: every
\* listener attached at that path is called.
smSnapshotArrives ==
  /\ smQueue # <<>>
  /\ LET path == Head(smQueue)
     IN  /\ smQueue' = Tail(smQueue)
         /\ smLoaded' = smLoaded \cup {path}
         /\ Fire("smOnValue", smSubs, smRuns, {path})
  /\ UNCHANGED <<db, pfVars, scVars, csvVars, smYear, smGrade, smSubs>>

\* values.join(separator)
RECURSIVE join(_, _)
join(values, separator) ==
  IF values = <<>> THEN <<>>
  ELSE IF Len(values) = 1 THEN values[1]
  ELSE values[1] \o <<separator>> \o join(Tail(values), separator)

\* The text downloadCSV puts in the blob.
downloadCSV(list) ==
  LET headers == [i \in DOMAIN RequiredFields |-> <<RequiredFields[i]>>]
      row(student) == [i \in DOMAIN RequiredFields |-> student[RequiredFields[i]]]
      csvContent == <<join(headers, ",")>>
                    \o [i \in DOMAIN list |-> join(row(list[i]), ",")]
  IN  join(csvContent, "\n")

\* The Download CSV button: downloadCSV(students.map(s => s.student), ...).
clickDownloadCSV ==
  /\ downloaded' = downloadCSV([i \in DOMAIN Roster |-> Roster[i].student])
  /\ lastOp' = [op |-> "downloadCSV"]
  /\ UNCHANGED <<db, pfVars, smVars, scVars, file, uploading, message, csvStudents,
                 uploadQueue>>

\* ------------------------------------------------- scoring evaluations
\* The calls the scoring specification evaluates.
SecondTries == {0, 30, MaxMeasure}

FirstTries(component) == IF component = "50msprint" THEN 0..MaxSprint ELSE 0..MaxMeasure

ScoreCalls ==
  UNION {[fn : {"calculateScore"}, component : {c}, gender : Genders,
          firstTry : FirstTries(c), secondTry : SecondTries] : c \in Components}
  \cup [fn : {"calculateScore"}, component : Components, gender : Genders,
        firstTry : {Undefined}, secondTry : SecondTries \cup {Undefined}]

GradeLevels == {<<"G", d, s>> : d \in {"1", "2", "3", "4", "5", "6"}, s \in {"A", "B"}}

GradeCalls == [fn : {"determineGrade"}, totalScore : 0..MaxTotal, gradeLevel : GradeLevels]

\* Records to report on: the record import writes, with the trial values
\* of one component set, and its second-trial value possibly absent.
Samples(component) ==
  {0} \cup {scoringTables[component]["Boy"][i].min : i \in 1..10}
      \cup {scoringTables[component]["Girl"][i].min : i \in 1..10}

GripSamples == {0, 4, 26, 101}

withTrials(student, tryNumber, key, value) ==
  IF value = Undefined
  THEN (tryNumber :> [k \in DOMAIN student[tryNumber] \ {key} |-> student[tryNumber][k]])
       @@ student
  ELSE (tryNumber :> ((key :> value) @@ student[tryNumber])) @@ student

ScBase == {studentData(CsvRow("Aoi", g, G1A)) : g \in Genders}

ScStudents ==
  UNION {{withTrials(withTrials(s, "1sttry", c, a), "2ndtry", c, b) :
            s \in ScBase, a \in Samples(c), b \in Samples(c) \cup {Undefined}} :
         c \in Components \ {"gripStrength"}}
  \cup {withTrials(withTrials(withTrials(withTrials(s, "1sttry", "gripstrR", a),
                                         "2ndtry", "gripstrR", b),
                              "1sttry", "gripstrL", c),
                   "2ndtry", "gripstrL", d) :
          s \in ScBase, a \in GripSamples, c \in GripSamples,
          b \in GripSamples \cup {Undefined}, d \in GripSamples \cup {Undefined}}

\* Records with every component measured at the least value of the i-th
\* range of its table.
FullTrials(gender, i) ==
  [k \in TrialKeys |->
     IF k \in Components THEN scoringTables[k][gender][i].min
     ELSE IF k = "gripstrR" THEN scoringTables["gripStrength"][gender][i].min
     ELSE 0]

ScFull == {("1sttry" :> FullTrials(s["gender"], i)) @@ s : s \in ScBase, i \in 1..10}

\* Records with one measurement missing from the first trial map, and from
\* the second one or not.
ScIncomplete ==
  {withTrials(withTrials(("1sttry" :> FullTrials(s["gender"], i)) @@ s,
                         "1sttry", k, Undefined), "2ndtry", k, b) :
     s \in ScBase, i \in {1, 5}, k \in TrialKeys \ {"aveGrip"}, b \in {0, Undefined}}

\* The lists of two records.
ScPairs ==
  {<<a, b>> : a \in {("1sttry" :> FullTrials(s["gender"], 1)) @@ s : s \in ScBase},
              b \in ScFull}

ReportCalls ==
  [fn : {"report"},
   students : {<<s>> : s \in ScStudents \cup ScFull \cup ScIncomplete} \cup ScPairs]

\* Class nodes to call the snapshot callbacks on: the records stored under
\* some of the keys student1, student2, student3, student10 and student12.
KeySlots == {1, 2, 3, 10, 12}

SlotNames == (1 :> "Aoi") @@ (2 :> "Beni") @@ (3 :> "Chie") @@ (10 :> "Dai") @@ (12 :> "Emi")

ListCalls ==
  [fn : {"studentList"},
   data : {[k \in slots |-> studentData(CsvRow(SlotNames[k], "Girl", G1A))] :
             slots \in SUBSET KeySlots}]

\* The files to import, each written from a header line and data lines of
\* cells; a cell is its content with white space before and after it.
Cell(content) == [left |-> <<>>, content |-> content, right |-> <<>>]

Padded(content) == [left |-> <<" ">>, content |-> content, right |-> <<" ", "\t">>]

cellText(cell) == cell.left \o cell.content \o cell.right

fileText(source) ==
  LET lineText(cells) == join([i \in DOMAIN cells |-> cellText(cells[i])], ",")
      lines == <<source.header>> \o source.lines
  IN  join([i \in DOMAIN lines |-> lineText(lines[i])], "\n")

GoodHeader == [i \in DOMAIN RequiredFields |-> Cell(<<RequiredFields[i]>>)]

\* The class column first, each name padded, the line ended by "\r\n".
MovedHeader ==
  [i \in 1..7 |->
     [left |-> <<" ">>, content |-> <<RequiredFields[IF i = 1 THEN 6 ELSE IF i = 6 THEN 1 ELSE i]>>,
      right |-> IF i = 7 THEN <<"\r">> ELSE <<>>]]

ShortHeader == SubSeq(GoodHeader, 1, 6)

EmptyLine == <<Cell(<<>>)>>

Headers == {GoodHeader, MovedHeader, ShortHeader, EmptyLine}

RowCells(name, class) ==
  <<Cell(name), Cell(name \o <<" ", "Ito">>), Cell(name), Cell(<<"Girl">>),
    Cell(<<class[2]>>), Cell(class), Cell(<<"Sato">>)>>

AoiRow == RowCells(<<"Aoi">>, G1A)

LineShapes ==
  {RowCells(<<name>>, class) : name \in {"Aoi", "Beni"}, class \in Grades}
  \cup {[i \in 1..7 |-> Padded(AoiRow[i].content)],
        [AoiRow EXCEPT ![7] = [left |-> <<>>, content |-> <<"Sato">>, right |-> <<"\r">>]],
        SubSeq(AoiRow, 1, 6),
        [AoiRow EXCEPT ![7] = Cell(<<>>)],
        [AoiRow EXCEPT ![4] = [left |-> <<" ">>, content |-> <<>>, right |-> <<>>]],
        Append(AoiRow, Cell(<<"extra">>)),
        EmptyLine}

\* A class of twelve, each student named after the line of the file.
ClassOfTwelve ==
  [header |-> GoodHeader,
   lines |-> [k \in 1..12 |-> RowCells(<<"Kid">> \o ToDigits(k), G1A)]]

FileSources ==
  {[header |-> GoodHeader, lines |-> lines] :
     lines \in {<<>>} \cup {<<a>> : a \in LineShapes}
               \cup {<<a, b>> : a \in LineShapes, b \in LineShapes}}
  \cup {[header |-> header, lines |-> lines] :
          header \in Headers, lines \in {<<>>} \cup {<<a>> : a \in LineShapes}}
  \cup {ClassOfTwelve}

\* The rows a file was written with: for each data line with a non-empty
\* content in the cell of every required column, the contents by column.
sourceRows(source) ==
  LET column(name) ==
        {i \in DOMAIN source.header : source.header[i].content = <<name>>}
      complete(cells) ==
        \A f \in DOMAIN RequiredFields :
          \E i \in column(RequiredFields[f]) :
            i \in DOMAIN cells /\ cells[i].content # <<>>
      rowOf(cells) ==
        [name \in {RequiredFields[f] : f \in DOMAIN RequiredFields} |->
           cells[CHOOSE i \in column(name) : TRUE].content]
      kept == SelectSeq(source.lines, complete)
  IN  [i \in DOMAIN kept |-> rowOf(kept[i])]

\* What the database holds when a file is imported: a class of three from an
\* earlier import, with a student number added and measurements taken.
StoredBefore ==
  [p \in Paths |->
     IF p = <<CurrentYear, G1A>>
     THEN [k \in 1..3 |->
             ("1sttry" :> [ZeroTrials EXCEPT !["situps"] = 20])
             @@ ("studentNumber" :> ToDigits(k))
             @@ studentData(sourceRows(ClassOfTwelve)[k])]
     ELSE <<>>]

NotEvaluated == [done |-> FALSE]

ScCalculateScore ==
  /\ scIn.fn = "calculateScore" /\ ~scOut.done
  /\ scOut' = [done |-> TRUE,
               value |-> calculateScore(scIn.component, scIn.gender,
                                        scIn.firstTry, scIn.secondTry)]
  /\ UNCHANGED <<db, pfVars, smVars, csvVars, scIn, lastOp>>

ScDetermineGrade ==
  /\ scIn.fn = "determineGrade" /\ ~scOut.done
  /\ scOut' = [done |-> TRUE, value |-> determineGrade(scIn.totalScore, scIn.gradeLevel)]
  /\ UNCHANGED <<db, pfVars, smVars, csvVars, scIn, lastOp>>

\* The edit view of each student of the list and the sheets of both exports.
ScReport ==
  /\ scIn.fn = "report" /\ ~scOut.done
  /\ scOut' = [done |-> TRUE,
               edit |-> [k \in DOMAIN scIn.students |-> renderEditView(scIn.students[k])],
               zip |-> exportGradeToIndividualWorkbooks(scIn.students),
               xlsx |-> exportGradeToSingleWorkbook(scIn.students)]
  /\ UNCHANGED <<db, pfVars, smVars, csvVars, scIn, lastOp>>

\* The lists the class-data callbacks of PhFitnessRecord and of
\* StudentManagement put in state for one snapshot value.
ScStudentList ==
  /\ scIn.fn = "studentList" /\ ~scOut.done
  /\ scOut' = [done |-> TRUE, students |-> studentList(scIn.data),
               roster |-> sortedEntriesOf(scIn.data)]
  /\ UNCHANGED <<db, pfVars, smVars, csvVars, scIn, lastOp>>

\* ------------------------------------------------------ specifications
PfStart ==
  /\ students = <<>>
  /\ currentStudentIndex = Null
  /\ selectedSchoolYear = CurrentYear
  /\ selectedGrade = G1A
  /\ hasUnsavedChanges = FALSE
  /\ isSaving = FALSE
  /\ subs = {<<CurrentYear, G1A>>}
  /\ pending = {<<CurrentYear, G1A>>}
  /\ effectRef = <<CurrentYear, G1A>>
  /\ pc = "idle"
  /\ inflight = <<>>
  /\ keyClosure = NoClosure

PfInit == PfStart /\ writes = MaxWrites

SmInit ==
  /\ smYear = CurrentYear
  /\ smGrade = AllGrades
  /\ smStudents = <<>>
  /\ smAlias = 0
  /\ smSubs = listenersOf(1, CurrentYear, AllGrades)
  /\ smRuns = <<[mode |-> "all", year |-> CurrentYear, allStudents |-> <<>>,
                 waiting |-> {<<CurrentYear, grades[i]>> : i \in DOMAIN grades},
                 settled |-> FALSE]>>
  /\ smLoaded = {}
  /\ smQueue = [i \in DOMAIN grades |-> <<CurrentYear, grades[i]>>]

CsvIdle ==
  /\ file = NoFile
  /\ uploading = FALSE
  /\ message = ""
  /\ csvStudents = <<>>
  /\ uploadQueue = <<>>
  /\ downloaded = <<>>

ScIdle == scIn = [fn |-> "none"] /\ scOut = NotEvaluated

Init ==
  /\ db = InitialDb
  /\ PfInit /\ SmInit /\ ScIdle /\ CsvIdle
  /\ lastOp = [op |-> "init"]

EditTypes == {"situps"}
EditTries == {"1sttry"}

\* PhFitnessRecord over the database.
Next ==
  \/ \E path \in Paths : SnapshotArrives(path)
  \/ \E type \in EditTypes, tryNumber \in EditTries, value \in 0..MaxEditValue :
       handleInputChange(type, tryNumber, value)
  \/ \E index \in 0..(MaxStudents - 1) : handleStudentSelect(index)
  \/ handleBackToList
  \/ \E key \in {"ArrowLeft", "ArrowRight"} : handleKeyPress(key)
  \/ saveAllChanges
  \/ \E ok \in BOOLEAN : WriteSettles(ok)
  \/ \E value \in SchoolYears, confirm \in BOOLEAN : handleSchoolYearChange(value, confirm)
  \/ \E value \in Grades, confirm \in BOOLEAN : handleGradeChange(value, confirm)
  \/ EffectCleanup
  \/ EffectSetup

Spec == Init /\ [][Next]_vars

\* StudentManagement over the database.
SmNext ==
  \/ \E value \in SchoolYears : smSelectSchoolYear(value)
  \/ \E value \in Grades \cup {AllGrades} : smSelectGrade(value)
  \/ smSnapshotArrives

SpecSM == Init /\ [][SmNext]_vars

\* An error message is on screen. The message of CsvUpload is the one piece
\* of state of the three components that holds a message: the catch blocks
\* of saveCurrentStudent and saveAllChanges log to the console and set none.
ErrorShown ==
  message \in {"Error uploading data. Please try again.",
               "Error processing file. Please check the format and try again."}

\* CsvUpload imports a file, and StudentManagement, opened once the upload
\* has ended, loads the rosters and downloads them.
ImportInit ==
  /\ db = StoredBefore
  /\ PfInit /\ SmInit /\ ScIdle
  /\ file \in {[selected |-> TRUE, text |-> fileText(source)] : source \in FileSources}
  /\ uploading = FALSE
  /\ message = ""
  /\ csvStudents = <<>>
  /\ uploadQueue = <<>>
  /\ downloaded = <<>>
  /\ lastOp = [op |-> "init"]

Imported == lastOp.op # "init" /\ ~uploading

\* The file is uploaded once, and once more after an upload that failed.
ToUpload == lastOp.op = "init" \/ (lastOp.op = "set" /\ ~lastOp.ok)

ImportNext ==
  \/ ToUpload /\ handleUpload
  \/ \E ok \in BOOLEAN : setSettles(ok)
  \/ /\ Imported /\ Len(smRuns) < MaxRosterRuns
     /\ \E value \in Grades \cup {AllGrades} : smSelectGrade(value)
  \/ Imported /\ smSnapshotArrives
  \/ Imported /\ clickDownloadCSV

SpecImport == ImportInit /\ [][ImportNext]_vars

\* Imports, edits and saves: PhFitnessRecord at work on the selected class
\* while CsvUpload imports a file.
RecordsInit ==
  /\ db = StoredBefore
  /\ PfInit /\ SmInit /\ ScIdle
  /\ file = [selected |-> TRUE,
             text |-> fileText([header |-> GoodHeader, lines |-> <<AoiRow>>])]
  /\ uploading = FALSE
  /\ message = ""
  /\ csvStudents = <<>>
  /\ uploadQueue = <<>>
  /\ downloaded = <<>>
  /\ lastOp = [op |-> "init"]

RecordsNext ==
  \/ \E path \in Paths : SnapshotArrives(path)
  \/ \E type \in EditTypes, tryNumber \in EditTries, value \in 0..MaxEditValue :
       handleInputChange(type, tryNumber, value)
  \/ \E index \in 0..(MaxStudents - 1) : handleStudentSelect(index)
  \/ handleBackToList
  \/ \E key \in {"ArrowLeft", "ArrowRight"} : handleKeyPress(key)
  \/ saveAllChanges
  \/ \E ok \in BOOLEAN : WriteSettles(ok)
  \/ ToUpload /\ handleUpload
  \/ \E ok \in BOOLEAN : setSettles(ok)

SpecRecords == RecordsInit /\ [][RecordsNext]_vars

\* Edits and saves of PhFitnessRecord on a class whose records are stored
\* under some of the keys student1, student2 and student3.
storedUnder(slots) ==
  [p \in Paths |->
     IF p = <<CurrentYear, G1A>>
     THEN [k \in slots |-> studentData(CsvRow(SlotNames[k], "Girl", G1A))]
     ELSE <<>>]

SlotsInit ==
  /\ db \in {storedUnder(slots) : slots \in {{1, 2}, {1, 3}, {2, 3}, {1, 2, 3}}}
  /\ PfStart /\ writes = MaxSaves /\ SmInit /\ ScIdle /\ CsvIdle
  /\ lastOp = [op |-> "init"]

SlotsNext ==
  \/ \E path \in Paths : SnapshotArrives(path)
  \/ \E type \in EditTypes, tryNumber \in EditTries, value \in 0..MaxEditValue :
       handleInputChange(type, tryNumber, value)
  \/ \E index \in 0..(MaxStudents - 1) : handleStudentSelect(index)
  \/ handleBackToList
  \/ \E key \in {"ArrowLeft", "ArrowRight"} : handleKeyPress(key)
  \/ saveAllChanges
  \/ \E ok \in BOOLEAN : WriteSettles(ok)

SpecSlots == SlotsInit /\ [][SlotsNext]_vars

\* StudentManagement showing the rosters while CsvUpload imports a file with
\* a row for each of two classes.
RosterInit ==
  /\ db = StoredBefore
  /\ PfInit /\ SmInit /\ ScIdle
  /\ file = [selected |-> TRUE,
             text |-> fileText([header |-> GoodHeader,
                                lines |-> <<AoiRow, RowCells(<<"Beni">>, G2B)>>])]
  /\ uploading = FALSE
  /\ message = ""
  /\ csvStudents = <<>>
  /\ uploadQueue = <<>>
  /\ downloaded = <<>>
  /\ lastOp = [op |-> "init"]

RosterNext ==
  \/ csvStudents = <<>> /\ handleUpload
  \/ \E ok \in BOOLEAN : setSettles(ok)
  \/ /\ Len(smRuns) < MaxRosterRuns
     /\ \E value \in Grades \cup {AllGrades} : smSelectGrade(value)
  \/ smSnapshotArrives
  \/ clickDownloadCSV

SpecRoster == RosterInit /\ [][RosterNext]_vars

\* The scoring engine called for rows as processCSV accepts them: with any
\* non-empty gender and any non-empty class.
ParsedGenders == {"Boy", "Girl", "boy", "Male"}

ParsedClasses == GradeLevels \cup {<<"1", "A">>, <<"G", "7", "A">>, <<"g", "1", "A">>}

ParsedCalls ==
  [fn : {"calculateScore"}, component : Components, gender : ParsedGenders,
   firstTry : {0, 30}, secondTry : {0, 30}]
  \cup [fn : {"determineGrade"}, totalScore : {0, 40, MaxTotal}, gradeLevel : ParsedClasses]

ParsedInit ==
  /\ db = InitialDb
  /\ PfInit /\ SmInit
  /\ scIn \in ParsedCalls
  /\ scOut = NotEvaluated
  /\ CsvIdle
  /\ lastOp = [op |-> "init"]

ParsedNext == ScCalculateScore \/ ScDetermineGrade

SpecParsed == ParsedInit /\ [][ParsedNext]_vars

\* The scoring engine and the reports on the calls above.
ScInit ==
  /\ db = InitialDb
  /\ PfInit /\ SmInit
  /\ scIn \in ScoreCalls \cup GradeCalls \cup ReportCalls \cup ListCalls
  /\ scOut = NotEvaluated
  /\ CsvIdle
  /\ lastOp = [op |-> "init"]

ScNext == ScCalculateScore \/ ScDetermineGrade \/ ScReport \/ ScStudentList

SpecScore == ScInit /\ [][ScNext]_vars

\* ---------------------------------------------------------- properties
\* The score the table of a component gives a value: the score of the range
\* that holds it, 0 when no range does.
TableHits(component, gender, value) ==
  LET ranges == scoringTables[component][gender]
  IN  {i \in DOMAIN ranges : ranges[i].min <= value /\ value <= ranges[i].max}

TableScore(component, gender, value) ==
  LET hits == TableHits(component, gender, value)
  IN  IF hits = {} THEN 0
      ELSE scoringTables[component][gender][CHOOSE i \in hits : TRUE].score

\* The better of two trials, the second standing in for the first when absent.
BestOf(firstTry, secondTry) ==
  IF secondTry = Undefined \/ secondTry <= firstTry THEN firstTry ELSE secondTry

Reported == scIn.fn = "report" /\ scOut.done

\* Every measurement of the first trial is there.
Measured(student) == TrialKeys \subseteq DOMAIN student["1sttry"]

\* The score columns of the edit view and of the two exports for a student.
ViewScores(student) ==
  <<renderEditView(student).scores, individualWorkbookSheet(student, 1).scores,
    singleWorkbookSheet(student, 1).scores>>

ReportedScores == <<scOut.edit[1].scores, scOut.zip[1].scores, scOut.xlsx[1].scores>>

\* The components scored on trial 1 alone and on the better of two trials.
SingleAttempt == {"situps", "50msprint", "20mshuttleruns"}

BestOfTwo == {"seatedtoetouch", "sidesteps", "longjump", "softballthrowing"}

\* An evaluated calculateScore call and the value its lookup is made with.
Scored == scIn.fn = "calculateScore" /\ scOut.done /\ IsNumber(scIn.firstTry)

ScoredValue ==
  IF scIn.component = "50msprint" THEN (scIn.firstTry \div 10) * 10
  ELSE IF scIn.secondTry > scIn.firstTry THEN scIn.secondTry ELSE scIn.firstTry

SprintScored == Scored /\ scIn.component = "50msprint"

\* An evaluated determineGrade call.
Graded == scIn.fn = "determineGrade" /\ scOut.done

\* C1: a save changes trial data only: after any saves, every stored record
\* still has each of its non-trial fields (names, gender, grade, class,
\* teacher) with the value it had before.
C1_NonTrialFieldsKept ==
  \A p \in Paths : \A k \in DOMAIN InitialDb[p] :
    /\ k \in DOMAIN db[p]
    /\ \A f \in NonTrialFields :
         f \in DOMAIN db[p][k] /\ db[p][k][f] = InitialDb[p][k][f]

\* C2: PhFitnessRecord holds at most one class-data subscription; when the
\* selection changes the listener of the previous path is detached before
\* the new one is attached, and once the students effect has run the
\* subscription is on the path of the selected school year and class.
C2_OneSubscriptionOnSelectedPath ==
  /\ Cardinality(subs) <= 1
  /\ pc = "cleanup" => subs = {effectRef}
  /\ pc = "setup" => subs = {}
  /\ pc = "idle" => subs = {SelectedPath} /\ effectRef = SelectedPath

C2_SubscriptionMoved ==
  /\ lastOp.op = "onValueAttach"
  /\ SelectedPath # <<CurrentYear, G1A>>
  /\ subs = {SelectedPath}

\* C3: the roster StudentManagement shows is only ever set by a callback of
\* the selection in force: a callback that sets the roster belongs to the
\* selected school year and grade.
C3_RosterSetBySelectionInForce ==
  lastOp.op = "smOnValue" =>
    \A s \in lastOp.setters : s[2] = smYear /\ s[3] = smGrade

\* C4: a class or school-year switch, taken with unsaved edits and confirmed,
\* writes nothing to the database, and the delivery of the class-data
\* snapshot, which is for the selected path, leaves hasUnsavedChanges false.
C4_DiscardSwitchWritesNothing ==
  [][ /\ (pc # "idle" \/ pc' # "idle") =>
           (db' = db /\ inflight' = inflight /\ writes' = writes)
      /\ (pc = "idle" /\ pc' = "idle" /\ pending' # pending) =>
           (pending \ pending' = {SelectedPath} /\ ~hasUnsavedChanges')
    ]_vars

C4_DiscardedAndDelivered ==
  /\ lastOp.op = "onValue" /\ lastOp.cleared
  /\ lastOp.path = SelectedPath
  /\ SelectedPath # <<CurrentYear, G1A>>
  /\ ~hasUnsavedChanges

\* C5: for situps, the 50 m sprint and the 20 m shuttle run the score shown
\* by the edit view and by each export depends on trial 1 only: giving the
\* record another trial-2 value leaves each of the three scores as it is.
C5_SingleAttemptIgnoresTrial2 ==
  Reported =>
    \A c \in SingleAttempt : \A v \in Samples(c) : \A view \in 1..3 :
      ViewScores(withTrials(scIn.students[1], "2ndtry", c, v))[view][c]
        = ReportedScores[view][c]

\* C6: the grip-strength score of the edit view and of each export is the
\* table score of the largest of the four grip values, an absent trial-2
\* value standing in for the trial-1 value of the same hand.
C6_GripScoreOfLargestValue ==
  (Reported /\ Measured(scIn.students[1])) =>
    LET student == scIn.students[1]
        bestR == BestOf(student["1sttry"]["gripstrR"], Get(student["2ndtry"], "gripstrR"))
        bestL == BestOf(student["1sttry"]["gripstrL"], Get(student["2ndtry"], "gripstrL"))
        expected == TableScore("gripStrength", student["gender"], BestOf(bestR, bestL))
    IN  \A view \in 1..3 : ReportedScores[view]["gripStrength"] = expected

\* C7: for seated toe touch, side steps, long jump and softball throwing
\* the score is the table score of the larger of trial 1 and trial 2, trial 1
\* standing in for an absent trial 2, in the edit view as in both exports.
C7_BestOfTwoTrials ==
  (Reported /\ Measured(scIn.students[1])) =>
    LET student == scIn.students[1] IN
    \A c \in BestOfTwo : \A view \in 1..3 :
      ReportedScores[view][c]
        = TableScore(c, student["gender"],
                     BestOf(student["1sttry"][c], Get(student["2ndtry"], c)))

C7_SecondTrialCounted ==
  /\ Reported
  /\ LET student == scIn.students[1] IN
     \E c \in BestOfTwo :
       /\ c \in DOMAIN student["1sttry"] /\ c \in DOMAIN student["2ndtry"]
       /\ student["2ndtry"][c] > student["1sttry"][c]
       /\ TableScore(c, student["gender"], student["2ndtry"][c])
            # TableScore(c, student["gender"], student["1sttry"][c])
       /\ \A view \in 1..3 :
            ReportedScores[view][c] = TableScore(c, student["gender"], student["2ndtry"][c])

\* C8: calculateScore returns an integer from 0 to 10. The ranges of a table
\* are disjoint and leave no gap between the smallest min and the largest
\* max, so a value there is in exactly one range and gets that range's
\* score, from 1 to 10, and a value in no range gets 0.
C8_ScoreOfTheOneRange ==
  Scored =>
    LET ranges == scoringTables[scIn.component][scIn.gender]
        hits == TableHits(scIn.component, scIn.gender, ScoredValue)
        covered == /\ \E i \in DOMAIN ranges : ranges[i].min <= ScoredValue
                   /\ \E i \in DOMAIN ranges : ScoredValue <= ranges[i].max
    IN  /\ scOut.value \in 0..10
        /\ Cardinality(hits) <= 1
        /\ covered => hits # {}
        /\ \A i \in hits : ranges[i].score \in 1..10 /\ scOut.value = ranges[i].score
        /\ hits = {} => scOut.value = 0

C8_LowestValueOfTopRange ==
  /\ Scored
  /\ scIn.component = "longjump" /\ scIn.gender = "Boy"
  /\ scIn.firstTry = 192 /\ scIn.secondTry = 0
  /\ scOut.value = 10

\* C9: a sprint time is cut to tenths of a second before the lookup: the
\* score is the table score of the time without its hundredths digit, so
\* times alike down to the tenths get the same score; a Boy gets 10 for
\* 8.06 s and 9 for 8.19 s.
C9_SprintCutToTenths ==
  SprintScored =>
    LET tenths == (scIn.firstTry \div 10) * 10 IN
    /\ scOut.value = TableScore("50msprint", scIn.gender, tenths)
    /\ \A d \in 0..9 :
         calculateScore("50msprint", scIn.gender, tenths + d, scIn.secondTry) = scOut.value
    /\ (scIn.gender = "Boy" /\ scIn.firstTry = 806) => scOut.value = 10
    /\ (scIn.gender = "Boy" /\ scIn.firstTry = 819) => scOut.value = 9

C9_BoyRuns806 ==
  /\ SprintScored
  /\ scIn.gender = "Boy" /\ scIn.firstTry = 806
  /\ scOut.value = 10

LetterRank(letter) == CHOOSE i \in 1..5 : <<"A", "B", "C", "D", "E">>[i] = letter

\* C11: determineGrade is monotonic in the total score: for a grade level
\* of G1 to G6, no smaller total gets a better letter than the total graded.
C11_GradeMonotonic ==
  Graded =>
    \A t \in 0..scIn.totalScore :
      LetterRank(scOut.value) <= LetterRank(determineGrade(t, scIn.gradeLevel))

C11_BetterThanTotalBelow ==
  /\ Graded
  /\ scIn.gradeLevel = G2B /\ scIn.totalScore = 47
  /\ scOut.value = "A"
  /\ determineGrade(46, scIn.gradeLevel) = "B"

\* The three reports on the k-th student of the list.
ReportsOn(k) == {scOut.edit[k], scOut.zip[k], scOut.xlsx[k]}

\* The letter the thresholds of a class section give a total.
LetterFor(total, gradeLevel) ==
  LET thresholds == gradeThresholds[<<gradeLevel[1], gradeLevel[2]>>]
      met == {i \in 1..5 : total >= thresholds[i]}
  IN  IF met = {} THEN "E"
      ELSE <<"A", "B", "C", "D", "E">>[CHOOSE i \in met : \A j \in met : i <= j]

\* C12: in the edit view and in both exports the total score of a student
\* is the sum of the eight component scores, grip strength counted once; it
\* is an integer from 0 to 80, the exports write it in their total row, and
\* the grade is the one the thresholds give that sum.
C12_TotalOfEightScores ==
  Reported =>
    \A k \in DOMAIN scIn.students :
      /\ \A report \in ReportsOn(k) :
           /\ report.totalScore
                = report.scores["gripStrength"] + report.scores["situps"]
                  + report.scores["seatedtoetouch"] + report.scores["sidesteps"]
                  + report.scores["20mshuttleruns"] + report.scores["50msprint"]
                  + report.scores["longjump"] + report.scores["softballthrowing"]
           /\ report.totalScore \in 0..80
           /\ report.grade = LetterFor(report.totalScore, scIn.students[k]["class"])
      /\ \A sheet \in {scOut.zip[k], scOut.xlsx[k]} :
           sheet.rows[Len(sheet.rows) - 1][10] = <<"number", sheet.totalScore>>

C12_TopInEveryComponent ==
  /\ Reported
  /\ \A report \in ReportsOn(1) :
       /\ \A c \in Components : report.scores[c] = 10
       /\ report.totalScore = 80 /\ report.grade = "A"

\* C13: scoring never fails on a measurement: calculateScore returns a score
\* from 0 to 10, and 0 for a measurement that is missing or in no range of
\* the table; the reports on a student with a missing measurement still
\* give a total and a grade, with 0 for the component not measured.
C13_MissingOrUnrangedScoresZero ==
  /\ (scIn.fn = "calculateScore" /\ scOut.done) =>
       /\ scOut.value \in 0..10
       /\ scIn.firstTry = Undefined => scOut.value = 0
       /\ (IsNumber(scIn.firstTry)
            /\ TableHits(scIn.component, scIn.gender, ScoredValue) = {}) => scOut.value = 0
  /\ Reported =>
       \A k \in DOMAIN scIn.students : \A report \in ReportsOn(k) :
         /\ report.totalScore \in 0..80
         /\ report.grade \in {"A", "B", "C", "D", "E"}
         /\ \A c \in Components \ {"gripStrength"} :
              c \notin DOMAIN scIn.students[k]["1sttry"] => report.scores[c] = 0
         /\ {"gripstrR", "gripstrL"} \ DOMAIN scIn.students[k]["1sttry"] # {}
              => report.scores["gripStrength"] = 0

C13_ReportedWithoutOneMeasurement ==
  /\ Reported
  /\ ~Measured(scIn.students[1])
  /\ \A report \in ReportsOn(1) : report.totalScore = 70 /\ report.grade = "A"

\* C20: the two exports render each student alike: for every position of
\* the list the sheet of the zip export and the sheet of the single
\* workbook have the same name cell, with its ordinal, the same rows with
\* the same cells, the same scores, total and grade.
C20_ExportsRenderAlike ==
  Reported =>
    /\ DOMAIN scOut.zip = DOMAIN scIn.students /\ DOMAIN scOut.xlsx = DOMAIN scIn.students
    /\ \A k \in DOMAIN scIn.students : scOut.zip[k] = scOut.xlsx[k]

C20_SecondOfTwoSheets ==
  /\ Reported
  /\ Len(scIn.students) = 2
  /\ scOut.zip[2].name = <<2, "Aoi">> /\ scOut.zip[2].totalScore > 0
  /\ scOut.zip[2] = scOut.xlsx[2]

\* C18: after a snapshot of the selected class the student list in state,
\* in PhFitnessRecord as in StudentManagement, holds the records of the
\* class in ascending order of the integer that ends the storage key, so
\* student2 comes before student10 and student10 before student12.
C18_ListInKeyNumberOrder ==
  (scIn.fn = "studentList" /\ scOut.done) =>
    LET data == scIn.data
        slotOf(student) == CHOOSE k \in DOMAIN data : data[k] = student
    IN  /\ Len(scOut.students) = Cardinality(DOMAIN data)
        /\ Len(scOut.roster) = Cardinality(DOMAIN data)
        /\ \A i, j \in DOMAIN scOut.students :
             i < j => slotOf(scOut.students[i]) < slotOf(scOut.students[j])
        /\ \A i, j \in DOMAIN scOut.roster :
             i < j => /\ keyNumber(scOut.roster[i].key) < keyNumber(scOut.roster[j].key)
                      /\ scOut.roster[i].student = data[keyNumber(scOut.roster[i].key)]
                      /\ scOut.roster[j].student = data[keyNumber(scOut.roster[j].key)]

C18_TwoTenTwelve ==
  /\ scIn.fn = "studentList" /\ scOut.done
  /\ DOMAIN scIn.data = {2, 10, 12}
  /\ scOut.students = <<scIn.data[2], scIn.data[10], scIn.data[12]>>
  /\ scOut.roster[1].key = <<"student", "2">>
  /\ scOut.roster[2].key = <<"student", "1", "0">>

\* C14: processCSV returns, in the order of the file, exactly the data lines
\* whose seven required fields are non-empty once the white space around
\* them is cut, each with the cut values of its fields; every other line is
\* dropped, and an empty file or a file of a header alone gives no rows
\* and ends in no error.
C14_RowsOfCompleteLines ==
  lastOp.op = "handleUpload" =>
    \A source \in FileSources :
      fileText(source) = file.text =>
        /\ Len(csvStudents) = Len(sourceRows(source))
        /\ \A i \in DOMAIN csvStudents : \A f \in DOMAIN RequiredFields :
             csvStudents[i][RequiredFields[f]] = sourceRows(source)[i][RequiredFields[f]]
        /\ source.lines = <<>> =>
             csvStudents = <<>> /\ message = "Successfully uploaded student data!"

C14_PaddedLineKeptShortLineDropped ==
  /\ lastOp.op = "handleUpload"
  /\ file.text = fileText([header |-> GoodHeader,
                           lines |-> <<SubSeq(AoiRow, 1, 6),
                                       [i \in 1..7 |-> Padded(AoiRow[i].content)]>>])
  /\ Len(csvStudents) = 1
  /\ csvStudents[1].teacher = <<"Sato">>
  /\ csvStudents[1].jpname = <<"Aoi", " ", "Ito">>

\* C15: when an import has succeeded, each class of the file holds under
\* {currentYear}/{classSection} the k-th of its rows, in the order of the
\* file, at the key student{k}, for k from 1 to the number n of its rows, so
\* no two rows at one key; no other key of the class has been written.
C15_RowsAtStudentKeysInOrder ==
  (Imported /\ message = "Successfully uploaded student data!") =>
    \A class \in Grades :
      LET rows == SelectSeq(csvStudents, LAMBDA student : student.class = class)
          node == db[<<CurrentYear, class>>]
          before == StoredBefore[<<CurrentYear, class>>]
      IN  /\ \A k \in 1..Len(rows) :
               /\ k \in DOMAIN node
               /\ \A f \in DOMAIN RequiredFields :
                    node[k][RequiredFields[f]] = rows[k][RequiredFields[f]]
          /\ \A k \in DOMAIN node \ (1..Len(rows)) :
               k \in DOMAIN before /\ node[k] = before[k]

C15_TwelveStored ==
  /\ Imported /\ message = "Successfully uploaded student data!"
  /\ Len(csvStudents) = 12
  /\ DOMAIN db[<<CurrentYear, G1A>>] = 1..12
  /\ db[<<CurrentYear, G1A>>][12].enname = <<"Kid", "1", "2">>
  /\ lastOp.op = "set" /\ lastOp.slot = 12

\* C16: the record an import writes replaces all that was stored at its key
\* and holds the seven fields of its row and both trial maps with each of
\* the ten keys at 0; and through imports, edits and saves every stored
\* record keeps both trial maps, each with all ten keys.
C16_ImportReplacesAndTrialMapsStay ==
  /\ (lastOp.op = "set" /\ lastOp.ok) =>
       LET record == db[lastOp.path][lastOp.slot]
       IN  /\ DOMAIN record = NonTrialFields \cup {"1sttry", "2ndtry"}
           /\ record["1sttry"] = ZeroTrials /\ record["2ndtry"] = ZeroTrials
           /\ \E i \in DOMAIN csvStudents :
                \A f \in NonTrialFields : record[f] = csvStudents[i][f]
  /\ \A path \in Paths : \A k \in DOMAIN db[path] :
       \A tryNumber \in {"1sttry", "2ndtry"} :
         /\ tryNumber \in DOMAIN db[path][k]
         /\ DOMAIN db[path][k][tryNumber] = TrialKeys

C16_ImportedThenMeasured ==
  /\ lastOp.op = "settled" /\ lastOp.ok
  /\ csvStudents # <<>> /\ ~uploading
  /\ LET record == db[<<CurrentYear, G1A>>][1]
     IN  /\ "studentNumber" \notin DOMAIN record
         /\ "enname" \in DOMAIN record /\ record.enname = <<"Aoi">>
         /\ record["1sttry"]["situps"] = 1

\* C17: a roster file imported and then downloaded comes back: for the one
\* class selected, and for each class when All Grades is selected, the
\* download holds the rows of the class in the file, with the same seven
\* fields and in the same order, also for a class of ten or more. Stated
\* for a class that holds nothing but the rows of this import.
C17_DownloadGivesBackRoster ==
  (lastOp.op = "downloadCSV" /\ message = "Successfully uploaded student data!"
     /\ smQueue = <<>>) =>
    LET back == processCSV(downloaded)
        rowsOf(rows, class) == SelectSeq(rows, LAMBDA student : student.class = class)
    IN  \A class \in (IF smGrade = AllGrades THEN Grades ELSE {smGrade}) :
          Cardinality(DOMAIN db[<<CurrentYear, class>>]) = Len(rowsOf(csvStudents, class))
            => /\ Len(rowsOf(back, class)) = Len(rowsOf(csvStudents, class))
               /\ \A i \in DOMAIN rowsOf(back, class) : \A f \in NonTrialFields :
                    rowsOf(back, class)[i][f] = rowsOf(csvStudents, class)[i][f]

\* C19: a write that fails in an import, in saveCurrentStudent or in
\* saveAllChanges is caught inside the operation and not retried, and the
\* operation ends with an error message on screen.
C19_FailedWriteShowsError ==
  /\ (lastOp.op = "set" /\ ~lastOp.ok) =>
       (ErrorShown /\ ~uploading /\ uploadQueue = <<>>)
  /\ (lastOp.op = "settled" /\ ~lastOp.ok) =>
       (ErrorShown /\ ~isSaving)

\* C21: a class or school-year switch taken with unsaved edits and cancelled
\* at the confirmation changes nothing: the selection, the student list with
\* its edits, currentStudentIndex and hasUnsavedChanges stay, the
\* subscription is not replaced and no write is issued.
C21_CancelledSwitchChangesNothing ==
  [][ (/\ lastOp'.op \in {"handleSchoolYearChange", "handleGradeChange"}
       /\ hasUnsavedChanges /\ ~lastOp'.confirm)
      => UNCHANGED <<db, students, currentStudentIndex, selectedSchoolYear, selectedGrade,
                     hasUnsavedChanges, isSaving, subs, pending, effectRef, pc, inflight,
                     writes, keyClosure>>
    ]_vars

C21_SwitchCancelledWhileEditing ==
  /\ lastOp.op = "handleGradeChange" /\ ~lastOp.confirm
  /\ hasUnsavedChanges /\ currentStudentIndex # Null
  /\ selectedGrade = G1A /\ pc = "idle"
  /\ subs = {<<CurrentYear, G1A>>}

\* C22: whenever hasUnsavedChanges is false and no save is in flight, with
\* the snapshot of the selected class delivered, each student of the list
\* has the trial values stored for that student: the flag is never cleared
\* while an edit is unwritten.
C22_ClearedFlagMeansStored ==
  (~hasUnsavedChanges /\ inflight = <<>> /\ pc = "idle" /\ Listening(SelectedPath)) =>
    \A k \in DOMAIN students :
      /\ k \in DOMAIN db[SelectedPath]
      /\ trialsOf(students[k]) = trialsOf(db[SelectedPath][k])

\* C23: a save writes under {schoolYear}/{classSection} the trial data of
\* records loaded from that class: when a write is issued, each key it
\* writes carries the trial maps of a student of the list in state, or of
\* the list the keydown listener closed over, whose class is the class of
\* the path written, also between a class switch and the first snapshot of
\* the new class.
C23_WriteCarriesDataOfItsPath ==
  [][ Len(inflight') > Len(inflight) =>
        LET write == inflight'[Len(inflight')].write
            ofClass(list, k) ==
              /\ k \in DOMAIN list /\ "class" \in DOMAIN list[k]
              /\ list[k]["class"] = write.path[2]
              /\ write.nodes[k] = trialsOf(list[k])
        IN  \A k \in DOMAIN write.nodes :
              ofClass(students, k) \/ ofClass(keyClosure.students, k)
    ]_vars

\* C24: a save writes the trials of a student at the key the student is
\* stored under: when a write is issued, each key student{index+1} it
\* writes is a key of the class, and the trial maps written there are those
\* of the student of the list, or of the list the keydown listener closed
\* over, that is stored under that key, whatever the keys of the class
\* are, gaps included.
C24_WriteGoesToKeyReadFrom ==
  [][ Len(inflight') > Len(inflight) =>
        LET write == inflight'[Len(inflight')].write
            stored == db[write.path]
            readFrom(list, k) ==
              /\ k \in DOMAIN list /\ write.nodes[k] = trialsOf(list[k])
              /\ "enname" \in DOMAIN list[k] /\ "enname" \in DOMAIN stored[k]
              /\ list[k].enname = stored[k].enname
        IN  \A k \in DOMAIN write.nodes :
              /\ k \in DOMAIN stored
              /\ readFrom(students, k) \/ readFrom(keyClosure.students, k)
    ]_vars

\* C25: currentStudentIndex is null or an index of the student list in
\* state, 0 <= currentStudentIndex < students.length, under every
\* interleaving of selections, arrow keys, save completions, class
\* switches and snapshots.
C25_IndexWithinList ==
  currentStudentIndex = Null \/ currentStudentIndex \in 0..(Len(students) - 1)

\* C26: with All Grades selected and every snapshot and change notification
\* delivered, the file Download CSV gives holds every student stored for the
\* selected school year exactly once.
C26_EveryStudentOnce ==
  (/\ lastOp.op = "downloadCSV" /\ smGrade = AllGrades
   /\ smQueue = <<>> /\ smAlias # 0) =>
    LET back == processCSV(downloaded)
        stored == {<<g, k>> : g \in Grades, k \in 1..12}
        held == {s \in stored : s[2] \in DOMAIN db[<<smYear, s[1]>>]}
    IN  /\ Len(back) = Cardinality(held)
        /\ \A s \in held :
             \E i \in DOMAIN back : \A f \in NonTrialFields :
               back[i][f] = db[<<smYear, s[1]>>][s[2]][f]

\* C27: for every row the import parser accepts, with any non-empty gender
\* and any non-empty class, scoring raises no error: calculateScore returns
\* a score from 0 to 10 and determineGrade a letter from 'A' to 'E', also
\* for a gender that is neither 'Boy' nor 'Girl' and a class whose prefix is
\* not one of G1 to G6.
C27_ScoringRaisesNoError ==
  scOut.done =>
    /\ scIn.fn = "calculateScore" => scOut.value \in 0..10
    /\ scIn.fn = "determineGrade" => scOut.value \in {"A", "B", "C", "D", "E"}

\* C28: the score is monotonic in the measurement: for every component
\* other than the 50 m sprint, grip strength included, a larger value never
\* scores less, however large it is; for the sprint, of two times of at
\* least 1 second the longer never scores more.
C28_ScoreMonotonic ==
  Scored =>
    IF scIn.component = "50msprint"
    THEN scIn.firstTry >= 100 =>
           \A t2 \in scIn.firstTry..MaxSprint :
             calculateScore(scIn.component, scIn.gender, t2, scIn.secondTry) <= scOut.value
    ELSE \A v2 \in scIn.firstTry..(MaxMeasure + 1) :
           calculateScore(scIn.component, scIn.gender, v2, scIn.secondTry) >= scOut.value

\* C29: at most one save is in flight and isSaving tells whether one is:
\* isSaving is true exactly when a write issued by saveCurrentStudent or
\* saveAllChanges has not completed, and no write is started while another
\* is awaited, whichever control starts it.
C29_OneSaveInFlight ==
  /\ Len(inflight) <= 1
  /\ isSaving <=> (inflight # <<>>)

====
